---------------------------- MODULE Spec2Model ----------------------------
(***************************************************************************)
(* Credential resolution and Chat of the picoclaw provider adapters:       *)
(*   ClaudeProvider  (pkg/providers/claude_provider.go)                    *)
(*   CodexProvider   (pkg/providers/codex_provider.go; standard OpenAI     *)
(*                    and Azure OpenAI variants)                           *)
(* Strings that the code inspects (secrets, tokens) are sequences of       *)
(* one-character strings, so that prefix tests and trimming are computed.  *)
(* Labels (roles, error texts, source names) are plain strings.            *)
(***************************************************************************)
EXTENDS Integers, Sequences, FiniteSets, TLC

\* --------------------------------------------------------------- bounds
\* Number of callers that may be inside Chat at the same time.
NCallers == 2
\* The clock runs from 0 to MaxTime.
MaxTime == 2
\* Number of refresh round-trips the refresh endpoint answers successfully.
MaxGen == 2

Callers == 1..NCallers

\* ------------------------------------------------------- character strings
Empty == << >>

SkAntPrefix == <<"s", "k", "-", "a", "n", "t", "-">>

HasPrefix(s, p) ==
  /\ Len(s) >= Len(p)
  /\ \A i \in 1..Len(p) : s[i] = p[i]

IsSpace(ch) == ch \in {" ", "\n", "\t", "\r"}

RECURSIVE TrimLeft(_)
TrimLeft(s) ==
  IF s # Empty /\ IsSpace(Head(s)) THEN TrimLeft(Tail(s)) ELSE s

RECURSIVE TrimRight(_)
TrimRight(s) ==
  IF s # Empty /\ IsSpace(s[Len(s)]) THEN TrimRight(SubSeq(s, 1, Len(s) - 1)) ELSE s

TrimSpace(s) == TrimRight(TrimLeft(s))

\* ----------------------------------------------------------------- tokens
EnvKeyA == SkAntPrefix \o <<"E", "1">>
EnvKeyB == <<"e", "n", "v", "2">>
KcKeyA == SkAntPrefix \o <<"K", "1">>
KcKeyB == SkAntPrefix \o <<"K", "2">>
KcOther == <<"h", "u", "n", "t", "e", "r">>
CtorTok == <<"c", "t", "o", "r">>
MiTok == <<"m", "i", "-", "j", "w", "t">>
ApiTok == <<"s", "k", "-", "a", "p", "i">>
OldAccess == <<"a", "t", "0">>
OldRefresh == <<"r", "t", "0">>
AcctOld == <<"a", "c", "c", "0">>
AcctCtor == <<"a", "c", "c", "C">>

Digit(n) == CASE n = 0 -> "0" [] n = 1 -> "1" [] n = 2 -> "2" [] n = 3 -> "3"
              [] n = 4 -> "4" [] OTHER -> "9"

\* Tokens the OAuth endpoint issues on its n-th successful round-trip.
NewAccess(n) == <<"a", "t", Digit(n)>>
NewRefresh(n) == <<"r", "t", Digit(n)>>
NewAcct(n) == <<"a", "c", "c", Digit(n)>>


\* ------------------------------------------------------ credential store
\* pkg/auth is not part of the sources at hand: the store, the expiry test and
\* the refresh round-trip are modelled from their use in the resolvers and
\* from the description of the Credential type.
NoExpiry == -1
RefreshWindow == 1
TokenTTL == 2

NoCred ==
  [AccessToken |-> Empty, RefreshToken |-> Empty, AccountID |-> Empty,
   AuthMethod |-> "none", ExpiresAt |-> NoExpiry]

ApiKeyCred ==
  [AccessToken |-> ApiTok, RefreshToken |-> Empty, AccountID |-> Empty,
   AuthMethod |-> "api_key", ExpiresAt |-> NoExpiry]

OAuthCred(rt, exp) ==
  [AccessToken |-> OldAccess, RefreshToken |-> rt, AccountID |-> AcctOld,
   AuthMethod |-> "oauth", ExpiresAt |-> exp]

\* cred.NeedsRefresh(): the credential is within its expiry-refresh window.
NeedsRefresh(cred, t) ==
  /\ cred.ExpiresAt # NoExpiry
  /\ t + RefreshWindow >= cred.ExpiresAt

\* auth.RefreshAccessToken: the credential the endpoint issues on its n-th
\* successful round-trip at time t.
RefreshAccessToken(cred, n, t) ==
  [AccessToken |-> NewAccess(n), RefreshToken |-> NewRefresh(n),
   AccountID |-> NewAcct(n), AuthMethod |-> cred.AuthMethod,
   ExpiresAt |-> t + TokenTTL]

StoreProviders == {"anthropic", "openai"}

InitOpenAICreds ==
  {NoCred, ApiKeyCred, OAuthCred(OldRefresh, 0), OAuthCred(Empty, 0),
   OAuthCred(OldRefresh, TokenTTL)}

InitAnthropicCreds == {NoCred, ApiKeyCred, OAuthCred(OldRefresh, 0)}

\* ------------------------------------------------------------ call traces
\* One entry per source a call attempts, in the order of the attempts.
Ev(src, name, out) == [src |-> src, name |-> name, out |-> out]

Count(tr, src) == Cardinality({i \in 1..Len(tr) : tr[i].src = src})

Has(tr, src, out) == \E i \in 1..Len(tr) : tr[i].src = src /\ tr[i].out = out

NoErr == << >>

\* fmt.Errorf("<prefix>: %w", err): the chain of messages, outermost first.
Wrap(prefix, err) == <<prefix>> \o err


\* ------------------------------------------------- macOS keychain (inputs)
\* What one run of `security find-generic-password -s <service> -w` yields:
\* a failure, or the text it printed.
KcOut(err, text) == [err |-> err, text |-> text]

KcOutputs ==
  {KcOut(TRUE, Empty),
   KcOut(FALSE, KcKeyA \o <<"\n">>),
   KcOut(FALSE, KcOther \o <<"\n">>)}

SafeOutputs == {KcOut(TRUE, Empty), KcOut(FALSE, KcOther \o <<"\n">>)}

\* The "Claude Code-credentials" secret after json.Unmarshal: whether it
\* parsed, and the members extractAPIKeyFromMCPCredentials looks at.
JsonDoc(valid, hasKey, key, hasAnth, anthKey) ==
  [valid |-> valid, hasApiKey |-> hasKey, apiKey |-> key,
   hasAnthropic |-> hasAnth, anthropicApiKey |-> anthKey]

NoDoc == JsonDoc(FALSE, FALSE, Empty, FALSE, Empty)

CredsOut(err, blank, doc) == [err |-> err, blank |-> blank, doc |-> doc]

CredsOutputs ==
  {CredsOut(TRUE, TRUE, NoDoc),
   CredsOut(FALSE, FALSE, NoDoc),
   CredsOut(FALSE, FALSE, JsonDoc(TRUE, FALSE, Empty, FALSE, Empty)),
   CredsOut(FALSE, FALSE, JsonDoc(TRUE, TRUE, KcKeyB, FALSE, Empty)),
   CredsOut(FALSE, FALSE, JsonDoc(TRUE, FALSE, Empty, TRUE, KcOther))}

\* The service list with Agency put before Anthropic.
keychainServices_AgencyFirst == <<"Agency", "Anthropic", "Claude Code">>

keychainServices == <<"Anthropic", "Agency", "Claude Code">>

KcServiceSet == {keychainServices[i] : i \in 1..Len(keychainServices)}

\* The keychain as one Resolve call finds it.
KcWorlds ==
  [svc : [KcServiceSet -> KcOutputs], creds : CredsOutputs, safe : SafeOutputs]

NoKc ==
  [svc |-> [s \in KcServiceSet |-> KcOut(TRUE, Empty)],
   creds |-> CredsOut(TRUE, TRUE, NoDoc), safe |-> KcOut(TRUE, Empty)]

getKeychainPassword(out) == IF out.err THEN Empty ELSE TrimSpace(out.text)

extractAPIKeyFromMCPCredentials(data) ==
  IF data.hasApiKey THEN data.apiKey
  ELSE IF data.hasAnthropic THEN data.anthropicApiKey
  ELSE Empty

\* The loop over keychainServices, from service i on.
RECURSIVE ScanServices(_, _, _)
ScanServices(kc, i, tr) ==
  IF i > Len(keychainServices)
  THEN [APIKey |-> Empty, trace |-> tr]
  ELSE LET service == keychainServices[i]
           apiKey == getKeychainPassword(kc.svc[service])
       IN IF apiKey # Empty
          THEN IF HasPrefix(apiKey, SkAntPrefix)
               THEN [APIKey |-> apiKey,
                     trace |-> Append(tr, Ev("keychain", service, "hit"))]
               ELSE ScanServices(kc, i + 1,
                                 Append(tr, Ev("keychain", service, "badshape")))
          ELSE ScanServices(kc, i + 1,
                            Append(tr, Ev("keychain", service, "miss")))

getClaudeCredentialsFromKeychain(os, kc) ==
  IF os # "darwin"
  THEN [APIKey |-> Empty, SessionToken |-> Empty, trace |-> << >>]
  ELSE LET scan == ScanServices(kc, 1, << >>)
       IN IF scan.APIKey # Empty
          THEN [APIKey |-> scan.APIKey, SessionToken |-> Empty,
                trace |-> scan.trace]
          ELSE LET credsSet == ~kc.creds.err /\ ~kc.creds.blank
                   fromCreds ==
                     IF credsSet /\ kc.creds.doc.valid
                     THEN extractAPIKeyFromMCPCredentials(kc.creds.doc)
                     ELSE Empty
                   tr1 == Append(scan.trace,
                                 Ev("keychain", "Claude Code-credentials",
                                    IF fromCreds # Empty THEN "hit" ELSE "miss"))
                   safeStorage == getKeychainPassword(kc.safe)
                   tr2 == Append(tr1,
                                 Ev("keychain", "Claude Safe Storage",
                                    IF safeStorage # Empty THEN "session" ELSE "miss"))
               IN [APIKey |-> fromCreds,
                   SessionToken |->
                     IF safeStorage # Empty /\ fromCreds = Empty
                     THEN safeStorage ELSE Empty,
                   trace |-> tr2]

\* auth.GetCredential as one call finds it: a load error, or the stored
\* credential (NoCred when there is none).
Load(err, cred) == [err |-> err, cred |-> cred]

\* The result of one token-source call.
Resolved(tok, acc, err, tr) == [tok |-> tok, acc |-> acc, err |-> err, trace |-> tr]

\* createDynamicTokenSource with the keychain consulted before the
\* environment variable.
createDynamicTokenSource_KeychainFirst(env, os, kc, ld) ==
  LET credentials ==
        IF os = "darwin"
        THEN getClaudeCredentialsFromKeychain(os, kc)
        ELSE [APIKey |-> Empty, SessionToken |-> Empty, trace |-> << >>]
  IN IF credentials.APIKey # Empty
     THEN Resolved(credentials.APIKey, Empty, NoErr, credentials.trace)
     ELSE IF env # Empty
     THEN Resolved(env, Empty, NoErr,
                   Append(credentials.trace, Ev("env", "ANTHROPIC_API_KEY", "hit")))
     ELSE Resolved(ld.cred.AccessToken, Empty, NoErr,
                   credentials.trace \o
                     <<Ev("env", "ANTHROPIC_API_KEY", "miss"),
                       Ev("store.load", "anthropic", "ok")>>)

\* createDynamicTokenSource giving up after the keychain, without the auth
\* store.
createDynamicTokenSource_NoStore(env, os, kc, ld) ==
  IF env # Empty
  THEN Resolved(env, Empty, NoErr, <<Ev("env", "ANTHROPIC_API_KEY", "hit")>>)
  ELSE LET credentials ==
             IF os = "darwin"
             THEN getClaudeCredentialsFromKeychain(os, kc)
             ELSE [APIKey |-> Empty, SessionToken |-> Empty, trace |-> << >>]
           tr1 == <<Ev("env", "ANTHROPIC_API_KEY", "miss")>> \o credentials.trace
       IN IF credentials.APIKey # Empty
          THEN Resolved(credentials.APIKey, Empty, NoErr, tr1)
          ELSE Resolved(Empty, Empty, <<"no credentials for anthropic">>, tr1)

\* The closure returned by createDynamicTokenSource.
createDynamicTokenSource(env, os, kc, ld) ==
  IF env # Empty
  THEN Resolved(env, Empty, NoErr, <<Ev("env", "ANTHROPIC_API_KEY", "hit")>>)
  ELSE LET tr0 == <<Ev("env", "ANTHROPIC_API_KEY", "miss")>>
           credentials ==
             IF os = "darwin"
             THEN getClaudeCredentialsFromKeychain(os, kc)
             ELSE [APIKey |-> Empty, SessionToken |-> Empty, trace |-> << >>]
           tr1 == tr0 \o credentials.trace
       IN IF credentials.APIKey # Empty
          THEN Resolved(credentials.APIKey, Empty, NoErr, tr1)
          ELSE IF ld.err
          THEN Resolved(Empty, Empty, <<"loading auth credentials">>,
                        Append(tr1, Ev("store.load", "anthropic", "error")))
          ELSE IF ld.cred = NoCred
          THEN Resolved(Empty, Empty, <<"no credentials for anthropic">>,
                        Append(tr1, Ev("store.load", "anthropic", "none")))
          ELSE Resolved(ld.cred.AccessToken, Empty, NoErr,
                        Append(tr1, Ev("store.load", "anthropic", "ok")))


\* ---------------------------------------------------------- Azure identity
AzureConfig(id, useMI) ==
  [configured |-> TRUE, APIVersion |-> "2024-02-15-preview",
   Scope |-> "https://cognitiveservices.azure.com/.default",
   ManagedIdentityID |-> id, UseManagedIdentity |-> useMI]

\* A nil *AzureConfig.
NoAzure ==
  [configured |-> FALSE, APIVersion |-> "", Scope |-> "",
   ManagedIdentityID |-> "", UseManagedIdentity |-> FALSE]

\* What the identity provider does in one call: credential construction
\* fails, the token request fails, or a token (possibly empty) comes back.
MiOut(createErr, tokenErr, token) ==
  [createErr |-> createErr, tokenErr |-> tokenErr, token |-> token]

MiOutcomes ==
  {MiOut(TRUE, FALSE, Empty), MiOut(FALSE, TRUE, Empty),
   MiOut(FALSE, FALSE, Empty), MiOut(FALSE, FALSE, MiTok)}

\* createAzureManagedIdentityTokenSource going to the default broker whatever
\* the configured client ID.
createAzureManagedIdentityTokenSource_DefaultOnly(config, mi) ==
  IF ~config.configured
  THEN Resolved(Empty, Empty, <<"Azure configuration is nil">>, << >>)
  ELSE IF mi.createErr
  THEN Resolved(Empty, Empty, <<"failed to create Azure credential">>,
                <<Ev("identity.create", "default", "error")>>)
  ELSE IF mi.tokenErr
  THEN Resolved(Empty, Empty, <<"failed to get Azure access token">>,
                <<Ev("identity.create", "default", "ok"),
                  Ev("identity.token", config.Scope, "error")>>)
  ELSE Resolved(mi.token, Empty, NoErr,
                <<Ev("identity.create", "default", "ok"),
                  Ev("identity.token", config.Scope,
                     IF mi.token # Empty THEN "hit" ELSE "empty")>>)

\* The closure returned by createAzureManagedIdentityTokenSource.
createAzureManagedIdentityTokenSource(config, mi) ==
  IF ~config.configured
  THEN Resolved(Empty, Empty, <<"Azure configuration is nil">>, << >>)
  ELSE LET kind == IF config.ManagedIdentityID # ""
                   THEN "user-assigned" ELSE "default"
       IN IF mi.createErr
          THEN Resolved(Empty, Empty, <<"failed to create Azure credential">>,
                        <<Ev("identity.create", kind, "error")>>)
          ELSE IF mi.tokenErr
          THEN Resolved(Empty, Empty, <<"failed to get Azure access token">>,
                        <<Ev("identity.create", kind, "ok"),
                          Ev("identity.token", config.Scope, "error")>>)
          ELSE Resolved(mi.token, Empty, NoErr,
                        <<Ev("identity.create", kind, "ok"),
                          Ev("identity.token", config.Scope,
                             IF mi.token # Empty THEN "hit" ELSE "empty")>>)

\* ------------------------------------------------- OpenAI / Azure resolvers
\* A resolver run up to its first return or to the refresh round-trip:
\* next = "backend" (resolved), "done" (failed) or "refresh" (round-trip due).
Phase(next, r, cred) ==
  [next |-> next, tok |-> r.tok, acc |-> r.acc, err |-> r.err,
   trace |-> r.trace, cred |-> cred]

\* createCodexTokenSource without the refresh branch: a stored credential is
\* returned as it is.
createCodexTokenSource_NoRefresh(ld, t) ==
  IF ld.err
  THEN Phase("done",
             Resolved(Empty, Empty, <<"loading auth credentials">>,
                      <<Ev("store.load", "openai", "error")>>), NoCred)
  ELSE IF ld.cred = NoCred
  THEN Phase("done",
             Resolved(Empty, Empty, <<"no credentials for openai">>,
                      <<Ev("store.load", "openai", "none")>>), NoCred)
  ELSE Phase("backend",
             Resolved(ld.cred.AccessToken, ld.cred.AccountID, NoErr,
                      <<Ev("store.load", "openai", "ok")>>), ld.cred)

\* createCodexTokenSource refreshing every OAuth credential, whatever its
\* expiry and its refresh token.
createCodexTokenSource_AlwaysRefresh(ld, t) ==
  IF ld.err
  THEN Phase("done",
             Resolved(Empty, Empty, <<"loading auth credentials">>,
                      <<Ev("store.load", "openai", "error")>>), NoCred)
  ELSE IF ld.cred = NoCred
  THEN Phase("done",
             Resolved(Empty, Empty, <<"no credentials for openai">>,
                      <<Ev("store.load", "openai", "none")>>), NoCred)
  ELSE IF ld.cred.AuthMethod = "oauth"
  THEN Phase("refresh",
             Resolved(Empty, Empty, NoErr,
                      <<Ev("store.load", "openai", "stale")>>), ld.cred)
  ELSE Phase("backend",
             Resolved(ld.cred.AccessToken, ld.cred.AccountID, NoErr,
                      <<Ev("store.load", "openai", "ok")>>), ld.cred)

\* The closure returned by createCodexTokenSource, to the refresh call.
createCodexTokenSource(ld, t) ==
  IF ld.err
  THEN Phase("done",
             Resolved(Empty, Empty, <<"loading auth credentials">>,
                      <<Ev("store.load", "openai", "error")>>), NoCred)
  ELSE IF ld.cred = NoCred
  THEN Phase("done",
             Resolved(Empty, Empty, <<"no credentials for openai">>,
                      <<Ev("store.load", "openai", "none")>>), NoCred)
  ELSE IF /\ ld.cred.AuthMethod = "oauth"
          /\ NeedsRefresh(ld.cred, t)
          /\ ld.cred.RefreshToken # Empty
  THEN Phase("refresh",
             Resolved(Empty, Empty, NoErr,
                      <<Ev("store.load", "openai", "stale")>>), ld.cred)
  ELSE Phase("backend",
             Resolved(ld.cred.AccessToken, ld.cred.AccountID, NoErr,
                      <<Ev("store.load", "openai", "ok")>>), ld.cred)

\* createDynamicCodexTokenSource returning the identity step's error instead
\* of going on to the store.
createDynamicCodexTokenSource_IdentityFatal(azureConfig, mi, ld, t) ==
  LET ident == createAzureManagedIdentityTokenSource(azureConfig, mi)
  IN IF ident.err = NoErr /\ ident.tok # Empty
     THEN [next |-> "backend", tok |-> ident.tok, acc |-> ident.acc,
           err |-> NoErr, trace |-> ident.trace, cred |-> NoCred]
     ELSE [next |-> "done", tok |-> Empty, acc |-> Empty,
           err |-> IF ident.err = NoErr THEN <<"empty Azure access token">>
                   ELSE ident.err,
           trace |-> ident.trace, cred |-> NoCred]

\* createDynamicCodexTokenSource without the refresh branch: a stored
\* credential is returned as it is.
createDynamicCodexTokenSource_NoRefresh(azureConfig, mi, ld, t) ==
  LET tryMI == azureConfig.configured /\ azureConfig.UseManagedIdentity
      ident == createAzureManagedIdentityTokenSource(azureConfig, mi)
      tr0 == IF tryMI THEN ident.trace ELSE << >>
  IN IF tryMI /\ ident.err = NoErr /\ ident.tok # Empty
     THEN [next |-> "backend", tok |-> ident.tok, acc |-> ident.acc,
           err |-> NoErr, trace |-> tr0, cred |-> NoCred]
     ELSE IF ld.err
     THEN [next |-> "done", tok |-> Empty, acc |-> Empty,
           err |-> <<"loading auth credentials">>,
           trace |-> Append(tr0, Ev("store.load", "openai", "error")),
           cred |-> NoCred]
     ELSE IF ld.cred = NoCred
     THEN [next |-> "done", tok |-> Empty, acc |-> Empty,
           err |-> <<"no credentials for openai">>,
           trace |-> Append(tr0, Ev("store.load", "openai", "none")),
           cred |-> NoCred]
     ELSE [next |-> "backend", tok |-> ld.cred.AccessToken,
           acc |-> ld.cred.AccountID, err |-> NoErr,
           trace |-> Append(tr0, Ev("store.load", "openai", "ok")),
           cred |-> ld.cred]

\* The closure returned by createDynamicCodexTokenSource, to the refresh call.
createDynamicCodexTokenSource(azureConfig, mi, ld, t) ==
  LET tryMI == azureConfig.configured /\ azureConfig.UseManagedIdentity
      ident == createAzureManagedIdentityTokenSource(azureConfig, mi)
      tr0 == IF tryMI THEN ident.trace ELSE << >>
  IN IF tryMI /\ ident.err = NoErr /\ ident.tok # Empty
     THEN Phase("backend", Resolved(ident.tok, ident.acc, NoErr, tr0), NoCred)
     ELSE IF ld.err
     THEN Phase("done",
                Resolved(Empty, Empty, <<"loading auth credentials">>,
                         Append(tr0, Ev("store.load", "openai", "error"))),
                NoCred)
     ELSE IF ld.cred = NoCred
     THEN Phase("done",
                Resolved(Empty, Empty, <<"no credentials for openai">>,
                         Append(tr0, Ev("store.load", "openai", "none"))),
                NoCred)
     ELSE IF /\ ld.cred.AuthMethod = "oauth"
             /\ NeedsRefresh(ld.cred, t)
             /\ ld.cred.RefreshToken # Empty
     THEN Phase("refresh",
                Resolved(Empty, Empty, NoErr,
                         Append(tr0, Ev("store.load", "openai", "stale"))),
                ld.cred)
     ELSE Phase("backend",
                Resolved(ld.cred.AccessToken, ld.cred.AccountID, NoErr,
                         Append(tr0, Ev("store.load", "openai", "ok"))),
                ld.cred)

\* AfterRefresh falling back to the stored access token when the round-trip
\* fails.
AfterRefresh_StaleFallback(ok, cred, refreshed, tr) ==
  IF ~ok
  THEN [next |-> "backend", tok |-> cred.AccessToken, acc |-> cred.AccountID,
        err |-> NoErr, trace |-> Append(tr, Ev("refresh", "openai", "error")),
        cred |-> NoCred]
  ELSE [next |-> "save", tok |-> Empty, acc |-> Empty, err |-> NoErr,
        trace |-> Append(tr, Ev("refresh", "openai", "ok")), cred |-> refreshed]

\* AfterRefresh trying the round-trip again when it fails.
AfterRefresh_Retry(ok, cred, refreshed, tr) ==
  IF ~ok
  THEN [next |-> IF Has(tr, "refresh", "error") THEN "done" ELSE "refresh",
        tok |-> Empty, acc |-> Empty,
        err |-> IF Has(tr, "refresh", "error") THEN <<"refreshing token">>
                ELSE NoErr,
        trace |-> Append(tr, Ev("refresh", "openai", "error")), cred |-> cred]
  ELSE [next |-> "save", tok |-> Empty, acc |-> Empty, err |-> NoErr,
        trace |-> Append(tr, Ev("refresh", "openai", "ok")), cred |-> refreshed]

\* After auth.RefreshAccessToken returned: an error ends the resolution,
\* a refreshed credential goes on to auth.SetCredential.
AfterRefresh(ok, cred, refreshed, tr) ==
  IF ~ok
  THEN Phase("done",
             Resolved(Empty, Empty, <<"refreshing token">>,
                      Append(tr, Ev("refresh", "openai", "error"))), NoCred)
  ELSE Phase("save",
             Resolved(Empty, Empty, NoErr,
                      Append(tr, Ev("refresh", "openai", "ok"))), refreshed)

\* After auth.SetCredential returned.
AfterSave(ok, refreshed, tr) ==
  IF ~ok
  THEN Phase("done",
             Resolved(Empty, Empty, <<"saving refreshed token">>,
                      Append(tr, Ev("store.save", "openai", "error"))), refreshed)
  ELSE Phase("backend",
             Resolved(refreshed.AccessToken, refreshed.AccountID, NoErr,
                      Append(tr, Ev("store.save", "openai", "ok"))), refreshed)


\* ---------------------------------------------------------------- adapters
\* The providers under study, as their constructors leave them.
\*   claude        NewClaudeProviderWithDynamicToken
\*   claude_static NewClaudeProvider (no token source)
\*   codex         NewCodexProviderAuto without Azure configuration
\*   azure         NewCodexProviderWithAzure, default identity broker
\*   azure_ua      NewCodexProviderWithAzure, user-assigned identity
Adapter(kind, hasTS, key, account, azure) ==
  [kind |-> kind, hasTokenSource |-> hasTS, clientKey |-> key,
   clientAccount |-> account, azureConfig |-> azure]

AdapterCfg(a) ==
  CASE a = "claude" -> Adapter("claude", TRUE, CtorTok, Empty, NoAzure)
    [] a = "claude_static" -> Adapter("claude", FALSE, CtorTok, Empty, NoAzure)
    [] a = "codex" -> Adapter("codex", TRUE, CtorTok, AcctCtor, NoAzure)
    [] a = "azure" -> Adapter("codex", TRUE, Empty, Empty, AzureConfig("", TRUE))
    [] a = "azure_ua" ->
         Adapter("codex", TRUE, Empty, Empty, AzureConfig("client-id", TRUE))

ClaudeAdapters == {"claude", "claude_static"}
CodexAdapters == {"codex"}
AzureAdapters == {"azure", "azure_ua"}

\* ------------------------------------------------------- requests, responses
\* The names of the headers the request options set: option.WithAPIKey sets
\* the key header of the SDK, option.WithHeader the one it names.
Headers(api, key, account) ==
  (IF key = Empty THEN {}
   ELSE IF api = "messages" THEN {"X-Api-Key"} ELSE {"Authorization"})
  \cup (IF account = Empty THEN {} ELSE {"Chatgpt-Account-Id"})

Req(api, key, account, query) ==
  [sent |-> TRUE, api |-> api, apiKey |-> key, accountHdr |-> account,
   apiVersionQuery |-> query, headers |-> Headers(api, key, account)]

NoReq ==
  [sent |-> FALSE, api |-> "", apiKey |-> Empty, accountHdr |-> Empty,
   apiVersionQuery |-> "", headers |-> {}]

Resp(finish) == [present |-> TRUE, FinishReason |-> finish]

NoResp == [present |-> FALSE, FinishReason |-> ""]

\* ClaudeProvider.Chat leaving out the per-request key: the client's
\* construction-time key goes out.
ClaudeRequest_ClientKey(p, tok) ==
  [sent |-> TRUE, api |-> "messages", apiKey |-> p.clientKey,
   accountHdr |-> Empty, apiVersionQuery |-> "",
   headers |-> {"X-Api-Key"}]

\* The request options ClaudeProvider.Chat hands to Messages.New: the
\* per-request key, when there is a token source, overrides the client's.
ClaudeRequest(p, tok) ==
  Req("messages", IF p.hasTokenSource THEN tok ELSE p.clientKey, Empty, "")

\* CodexProvider.Chat, standard OpenAI: Responses.New.
CodexRequest(p, tok, accID) ==
  Req("responses",
      IF p.hasTokenSource THEN tok ELSE p.clientKey,
      IF p.hasTokenSource /\ accID # Empty THEN accID ELSE p.clientAccount,
      "")

\* chatAzure sending the API version as a header instead of a query
\* parameter.
AzureRequest_VersionHeader(p, tok, accID) ==
  [sent |-> TRUE, api |-> "chat.completions",
   apiKey |-> IF p.hasTokenSource THEN tok ELSE p.clientKey,
   accountHdr |-> Empty, apiVersionQuery |-> "",
   headers |-> {"Authorization", "api-version"}]

\* CodexProvider.chatAzure: Chat.Completions.New with the api-version query.
AzureRequest(p, tok, accID) ==
  Req("chat.completions",
      IF p.hasTokenSource THEN tok ELSE p.clientKey,
      IF p.hasTokenSource /\ accID # Empty THEN accID ELSE p.clientAccount,
      p.azureConfig.APIVersion)

ChatRequest(p, tok, accID) ==
  IF p.kind = "claude" THEN ClaudeRequest(p, tok)
  ELSE IF p.azureConfig.configured THEN AzureRequest(p, tok, accID)
  ELSE CodexRequest(p, tok, accID)

\* The prefix Chat puts before a backend error.
BackendErrPrefix(p) ==
  IF p.kind = "claude" THEN "claude API call"
  ELSE IF p.azureConfig.configured THEN "Azure OpenAI API call"
  ELSE "codex API call"

\* Chat handing back the response it has together with the backend error.
ChatOutcome_Partial(p, ok) ==
  [resp |-> [present |-> TRUE, FinishReason |-> IF ok THEN "stop" ELSE "error"],
   err |-> IF ok THEN NoErr ELSE <<BackendErrPrefix(p), "backend error">>]

\* What Chat returns after the backend call: a response and no error, or
\* no response and the wrapped error.
ChatOutcome(p, ok) ==
  IF ok THEN [resp |-> Resp("stop"), err |-> NoErr]
  ELSE [resp |-> NoResp, err |-> <<BackendErrPrefix(p), "backend error">>]

\* The prefix Chat puts before a token-source error.
ResolveErrPrefix == "refreshing token"

\* -------------------------------------------------------------------- state
VARIABLES
  goos,     \* runtime.GOOS
  envKey,   \* the value of ANTHROPIC_API_KEY
  store,    \* the auth store: provider name -> credential
  now,      \* the clock
  gen,      \* successful refresh round-trips so far
  call,     \* per caller: the Chat invocation it is in, or its last one
  ctx,      \* per caller: the context.Context it passes to Chat
  input,    \* the argument of the function under study (translators,
            \* normalizers, configuration loading)
  output    \* what the function made of it

vars == <<goos, envKey, store, now, gen, call, ctx, input, output>>

\* A context that is not canceled; one canceled when the call's trace had
\* `at` entries.
LiveCtx == [canceled |-> FALSE, at |-> 0]

CanceledCtx(at) == [canceled |-> TRUE, at |-> at]

\* No function under study.
NoInput == [kind |-> "none"]

NoOutput == [fn |-> "none"]

EnvValues == {Empty, EnvKeyA, EnvKeyB}

IdleCall ==
  [pc |-> "idle", adapter |-> "", cred |-> NoCred, staleAtCall |-> FALSE,
   refreshed |-> NoCred, tok |-> Empty, acc |-> Empty, err |-> NoErr,
   trace |-> << >>, req |-> NoReq, resp |-> NoResp]

Init ==
  /\ goos \in {"darwin", "linux"}
  /\ envKey = Empty
  /\ store \in [StoreProviders -> InitOpenAICreds]
  /\ store["anthropic"] \in InitAnthropicCreds
  /\ now = 0
  /\ gen = 0
  /\ call = [c \in Callers |-> IdleCall]
  /\ ctx = [c \in Callers |-> LiveCtx]
  /\ input = NoInput
  /\ output = NoOutput

\* The credential is one the delegated-store step has to refresh.
IsStale(cred, t) ==
  /\ cred.AuthMethod = "oauth"
  /\ NeedsRefresh(cred, t)
  /\ cred.RefreshToken # Empty

\* The call record after the token source ran to phase ph; stale tells
\* whether the stored credential was one to refresh when Chat was called.
Entered(a, ph, stale) ==
  [pc |-> ph.next, adapter |-> a, cred |-> ph.cred, staleAtCall |-> stale,
   refreshed |-> NoCred, tok |-> ph.tok, acc |-> ph.acc,
   err |-> IF ph.err = NoErr THEN NoErr ELSE Wrap(ResolveErrPrefix, ph.err),
   trace |-> ph.trace, req |-> NoReq, resp |-> NoResp]

\* Chat calling p.tokenSource(), when there is one.
TokenSourceCall(a) == <<Ev("tokenSource", a, "call")>>

Free(c) == call[c].pc = "idle"


\* The trace shows a credential taken from the store.
LoadedFrom(tr) ==
  \E i \in 1..Len(tr) : tr[i].src = "store.load" /\ tr[i].out \in {"ok", "stale"}

\* The call record after a later resolver phase ph.
Advanced(rec, ph) ==
  [rec EXCEPT !.pc = ph.next, !.tok = ph.tok, !.acc = ph.acc,
              !.err = IF ph.err = NoErr THEN NoErr
                      ELSE Wrap(ResolveErrPrefix, ph.err),
              !.trace = ph.trace]

\* ------------------------------------------------------------------ actions
\* ClaudeProvider.Chat, to the end of its token-source call.
ClaudeChat(c) ==
  /\ Free(c)
  /\ \E a \in ClaudeAdapters :
       LET p == AdapterCfg(a)
       IN IF ~p.hasTokenSource
          THEN call' = [call EXCEPT ![c] =
                 Entered(a, Phase("backend",
                                  Resolved(Empty, Empty, NoErr, << >>), NoCred),
                         FALSE)]
          ELSE \E kc \in (IF envKey = Empty /\ goos = "darwin"
                          THEN KcWorlds ELSE {NoKc}),
                  ldErr \in BOOLEAN :
                 LET ld == Load(ldErr, store["anthropic"])
                     r0 == createDynamicTokenSource(envKey, goos, kc, ld)
                     r == [r0 EXCEPT !.trace = TokenSourceCall(a) \o r0.trace]
                 IN call' = [call EXCEPT ![c] =
                      Entered(a,
                              Phase(IF r.err = NoErr THEN "backend" ELSE "done",
                                    r,
                                    IF LoadedFrom(r.trace) THEN ld.cred ELSE NoCred),
                              IsStale(store["anthropic"], now))]
  /\ UNCHANGED <<goos, envKey, store, now, gen, ctx, input, output>>

\* CodexProvider.Chat (standard OpenAI), to the first return of its token
\* source or to the refresh round-trip.
CodexChat(c) ==
  /\ Free(c)
  /\ \E a \in CodexAdapters, ldErr \in BOOLEAN :
       LET ld == Load(ldErr, store["openai"])
           ph0 == createCodexTokenSource(ld, now)
           ph == [ph0 EXCEPT !.trace = TokenSourceCall(a) \o ph0.trace]
       IN call' = [call EXCEPT ![c] =
            Entered(a, ph, IsStale(store["openai"], now))]
  /\ UNCHANGED <<goos, envKey, store, now, gen, ctx, input, output>>

\* CodexProvider.Chat (Azure), likewise.
AzureChat(c) ==
  /\ Free(c)
  /\ \E a \in AzureAdapters, mi \in MiOutcomes, ldErr \in BOOLEAN :
       LET ld == Load(ldErr, store["openai"])
           ph0 == createDynamicCodexTokenSource(AdapterCfg(a).azureConfig,
                                                mi, ld, now)
           ph == [ph0 EXCEPT !.trace = TokenSourceCall(a) \o ph0.trace]
       IN call' = [call EXCEPT ![c] =
            Entered(a, ph, IsStale(store["openai"], now))]
  /\ UNCHANGED <<goos, envKey, store, now, gen, ctx, input, output>>

\* The refresh round-trip returns.
Refresh(c) ==
  /\ call[c].pc = "refresh"
  /\ \E ok \in BOOLEAN :
       /\ ok => gen < MaxGen
       /\ LET ph == AfterRefresh(ok, call[c].cred,
                                 RefreshAccessToken(call[c].cred, gen + 1, now),
                                 call[c].trace)
          IN call' = [call EXCEPT ![c] =
               [Advanced(call[c], ph) EXCEPT !.refreshed = ph.cred]]
       /\ gen' = IF ok THEN gen + 1 ELSE gen
  /\ UNCHANGED <<goos, envKey, store, now, ctx, input, output>>

\* auth.SetCredential returns.
Save(c) ==
  /\ call[c].pc = "save"
  /\ \E ok \in BOOLEAN :
       /\ LET ph == AfterSave(ok, call[c].refreshed, call[c].trace)
          IN call' = [call EXCEPT ![c] = Advanced(call[c], ph)]
       /\ store' = IF ok THEN [store EXCEPT !["openai"] = call[c].refreshed]
                   ELSE store
  /\ UNCHANGED <<goos, envKey, now, gen, ctx, input, output>>

\* The backend call of Chat and its return. The SDK call is given ctx: with
\* ctx canceled it returns an error.
Backend(c) ==
  /\ call[c].pc = "backend"
  /\ \E ok \in (IF ctx[c].canceled THEN {FALSE} ELSE BOOLEAN) :
       LET p == AdapterCfg(call[c].adapter)
           rq == ChatRequest(p, call[c].tok, call[c].acc)
       IN call' = [call EXCEPT ![c] =
            [call[c] EXCEPT
               !.pc = "done",
               !.req = rq,
               !.trace = Append(call[c].trace,
                                Ev("backend", rq.api, IF ok THEN "ok" ELSE "error")),
               !.resp = ChatOutcome(p, ok).resp,
               !.err = ChatOutcome(p, ok).err]]
  /\ UNCHANGED <<goos, envKey, store, now, gen, ctx, input, output>>

\* Chat has returned its result and the caller has taken it; its next call
\* gets a context of its own.
Return(c) ==
  /\ call[c].pc = "done"
  /\ call' = [call EXCEPT ![c] = IdleCall]
  /\ ctx' = [ctx EXCEPT ![c] = LiveCtx]
  /\ UNCHANGED <<goos, envKey, store, now, gen, input, output>>

\* The caller cancels the context of its call, before the call or during it.
Cancel(c) ==
  /\ ~ctx[c].canceled
  /\ call[c].pc # "done"
  /\ ctx' = [ctx EXCEPT ![c] = CanceledCtx(Len(call[c].trace))]
  /\ UNCHANGED <<goos, envKey, store, now, gen, call, input, output>>

\* The environment variable changes between or during calls.
SetEnv ==
  /\ \E v \in EnvValues \ {envKey} : envKey' = v
  /\ UNCHANGED <<goos, store, now, gen, call, ctx, input, output>>

\* Time passes.
Tick ==
  /\ now < MaxTime
  /\ now' = now + 1
  /\ UNCHANGED <<goos, envKey, store, gen, call, ctx, input, output>>

\* One caller at a time: every Chat runs to its end before the next starts.
Next ==
  \/ ClaudeChat(1)
  \/ CodexChat(1)
  \/ AzureChat(1)
  \/ Refresh(1)
  \/ Save(1)
  \/ Backend(1)
  \/ Return(1)
  \/ SetEnv
  \/ Tick

Spec == Init /\ [][Next]_vars

\* Concurrent callers on the adapters that share the "openai" credential.
NextConc ==
  \/ \E c \in Callers : CodexChat(c)
  \/ \E c \in Callers : AzureChat(c)
  \/ \E c \in Callers : Refresh(c)
  \/ \E c \in Callers : Save(c)
  \/ \E c \in Callers : Backend(c)
  \/ \E c \in Callers : Return(c)
  \/ Tick

InitConc ==
  /\ goos = "linux"
  /\ envKey = Empty
  /\ store \in [StoreProviders -> InitOpenAICreds]
  /\ store["anthropic"] = NoCred
  /\ now = 0
  /\ gen = 0
  /\ call = [c \in Callers |-> IdleCall]
  /\ ctx = [c \in Callers |-> LiveCtx]
  /\ input = NoInput
  /\ output = NoOutput

SpecConc == InitConc /\ [][NextConc]_vars

\* One caller that may cancel its context, on the adapters whose resolvers
\* make network calls.
NextCtx ==
  \/ CodexChat(1)
  \/ AzureChat(1)
  \/ Refresh(1)
  \/ Save(1)
  \/ Backend(1)
  \/ Return(1)
  \/ Cancel(1)
  \/ Tick

SpecCtx == InitConc /\ [][NextCtx]_vars


\* ------------------------------------------------------------- properties
\* The token source of the call has returned and the backend is not yet called.
Returned(rec) ==
  \/ rec.pc = "backend"
  \/ rec.pc = "done" /\ Count(rec.trace, "backend") = 0

\* The token source of the call returned an error.
ResolveFailed(rec) == rec.pc = "done" /\ Count(rec.trace, "backend") = 0

\* Position of the first entry of source src in a trace (0: none).
Pos(tr, src) ==
  IF \E i \in 1..Len(tr) : tr[i].src = src
  THEN CHOOSE i \in 1..Len(tr) :
         tr[i].src = src /\ \A j \in 1..(i - 1) : tr[j].src # src
  ELSE 0

\* A Chat call of caller c on adapter set A starts in this step.
Starts(c, A) ==
  call[c].pc = "idle" /\ call'[c].pc # "idle" /\ call'[c].adapter \in A

OpenAIAdapters == CodexAdapters \cup AzureAdapters

\* The refresh round-trip, the store write and nothing else follow the load,
\* in this order.
RefreshedAndSaved(tr) ==
  /\ Has(tr, "refresh", "ok")
  /\ Has(tr, "store.save", "ok")
  /\ Pos(tr, "store.load") < Pos(tr, "refresh")
  /\ Pos(tr, "refresh") < Pos(tr, "store.save")
  /\ Pos(tr, "store.save") = Len(tr)

\* C2 as stated: in the OpenAI/Azure resolvers run by one caller, a Resolve
\* call made while the stored credential is oauth, within its refresh window
\* and holds a refresh token performs exactly one refresh round-trip, writes
\* the refreshed credential before it returns, returns the refreshed access
\* token and account ID and leaves the store holding the refreshed credential.
C2_Original ==
  \A c \in Callers :
    (call[c].adapter \in OpenAIAdapters /\ call[c].staleAtCall
       /\ Returned(call[c])) =>
      /\ Count(call[c].trace, "refresh") = 1
      /\ RefreshedAndSaved(call[c].trace)
      /\ call[c].pc = "backend"
      /\ call[c].tok = call[c].refreshed.AccessToken
      /\ call[c].acc = call[c].refreshed.AccountID
      /\ store["openai"] = call[c].refreshed

\* C2 amended: when a Resolve call of the OpenAI/Azure resolvers, run by one
\* caller, loads such a credential from the store (the Azure resolver loads
\* the store only after the identity step gave no token), it performs exactly
\* one refresh round-trip; when the round-trip and the store write succeed it
\* has written the refreshed credential before it returns, returns the
\* refreshed access token and account ID and the store holds the refreshed
\* credential; when either fails it returns an error and no token.
C2_RefreshOnce ==
  \A c \in Callers :
    (call[c].adapter \in OpenAIAdapters /\ call[c].staleAtCall
       /\ LoadedFrom(call[c].trace) /\ Returned(call[c])) =>
      /\ Count(call[c].trace, "refresh") = 1
      /\ IF Has(call[c].trace, "refresh", "ok")
            /\ Has(call[c].trace, "store.save", "ok")
         THEN /\ RefreshedAndSaved(call[c].trace)
              /\ call[c].pc = "backend"
              /\ call[c].err = NoErr
              /\ call[c].refreshed # call[c].cred
              /\ call[c].tok = call[c].refreshed.AccessToken
              /\ call[c].acc = call[c].refreshed.AccountID
              /\ store["openai"] = call[c].refreshed
         ELSE /\ call[c].pc = "done"
              /\ call[c].err # NoErr
              /\ call[c].tok = Empty

C2_Witness ==
  \E c \in Callers :
    /\ call[c].adapter \in AzureAdapters
    /\ call[c].staleAtCall
    /\ call[c].pc = "backend"
    /\ RefreshedAndSaved(call[c].trace)
    /\ store["openai"].AccessToken = NewAccess(1)
    /\ call[c].tok = NewAccess(1)


\* The caller is between its expiry check and its persist.
InRefreshRegion(c) == call[c].pc \in {"refresh", "save"}

\* C3: with concurrent Chat calls on adapters sharing one stored credential,
\* check-expiry -> refresh -> persist is a mutual-exclusion region: at most
\* one invocation is between its expiry check and its persist.
C3_MutualExclusion ==
  \A c1, c2 \in Callers :
    (InRefreshRegion(c1) /\ InRefreshRegion(c2)) => c1 = c2

\* C4: when the refresh round-trip fails, Resolve fails as a whole: an error
\* and no token (no fallback to the stale stored access token), the stored
\* credential exactly as it was loaded, and Chat returns that error without
\* calling the backend.
C4_RefreshFailureIsHard ==
  \A c \in Callers :
    Has(call[c].trace, "refresh", "error") =>
      /\ call[c].pc = "done"
      /\ call[c].err = <<"refreshing token", "refreshing token">>
      /\ call[c].tok = Empty
      /\ call[c].acc = Empty
      /\ ~call[c].resp.present
      /\ ~call[c].req.sent
      /\ Count(call[c].trace, "backend") = 0
      /\ Count(call[c].trace, "store.save") = 0
      /\ call[c].cred # NoCred
      /\ store["openai"] = call[c].cred

C4_Witness ==
  \E c \in Callers :
    /\ call[c].adapter = "codex"
    /\ Has(call[c].trace, "refresh", "error")
    /\ call[c].pc = "done"
    /\ store["openai"].AccessToken = OldAccess

\* The identity step of the call yielded no token.
IdentityFailed(tr) ==
  \/ Has(tr, "identity.create", "error")
  \/ Has(tr, "identity.token", "error")
  \/ Has(tr, "identity.token", "empty")

\* C5: in the Azure resolver a failed managed-identity step (credential
\* creation error, token fetch error, empty token) never fails the resolution
\* by itself: Resolve goes on to the delegated store and returns what that
\* step yields; when the identity step yields a non-empty token, that token is
\* returned and the store is neither loaded nor written.
C5_IdentityFallthrough ==
  [][\A c \in Callers :
       Starts(c, AzureAdapters) =>
         /\ Count(call'[c].trace, "identity.create") = 1
         /\ IdentityFailed(call'[c].trace) \/ Has(call'[c].trace, "identity.token", "hit")
         /\ IdentityFailed(call'[c].trace) =>
              /\ Count(call'[c].trace, "store.load") = 1
              /\ \E ldErr \in BOOLEAN :
                   LET std == createCodexTokenSource(Load(ldErr, store["openai"]), now)
                   IN /\ call'[c].pc = std.next
                      /\ call'[c].tok = std.tok
                      /\ call'[c].acc = std.acc
                      /\ call'[c].cred = std.cred
                      /\ call'[c].err =
                           IF std.err = NoErr THEN NoErr
                           ELSE <<"refreshing token">> \o std.err
         /\ Has(call'[c].trace, "identity.token", "hit") =>
              /\ call'[c].pc = "backend"
              /\ call'[c].tok = MiTok
              /\ call'[c].err = NoErr
              /\ Count(call'[c].trace, "store.load") = 0
              /\ store' = store]_vars

C5_Witness ==
  \E c \in Callers :
    /\ call[c].adapter = "azure_ua"
    /\ Has(call[c].trace, "identity.token", "error")
    /\ Has(call[c].trace, "store.load", "ok")
    /\ call[c].pc = "backend"
    /\ call[c].tok = ApiTok


\* Some source of the call handed over a token.
YieldedBy(tr, srcs) ==
  \E i \in 1..Len(tr) : tr[i].src \in srcs /\ tr[i].out \in {"hit", "ok"}

TokenSources == {"env", "keychain", "identity.token", "store.load", "refresh"}

Yielded(tr) == YieldedBy(tr, TokenSources)

\* The source a resolver error message speaks of.
ErrSource(msg) ==
  CASE msg = "loading auth credentials" -> "store.load"
    [] msg = "no credentials for anthropic" -> "store.load"
    [] msg = "no credentials for openai" -> "store.load"
    [] msg = "refreshing token" -> "refresh"
    [] msg = "saving refreshed token" -> "store.save"
    [] OTHER -> "unknown"

\* Every source that applies to the call's adapter on this platform has been
\* attempted.
AllApplicableAttempted(rec) ==
  /\ Count(rec.trace, "store.load") = 1
  /\ rec.adapter = "claude" =>
       /\ Count(rec.trace, "env") = 1
       /\ Count(rec.trace, "keychain") =
            IF goos = "darwin" THEN Len(keychainServices) + 2 ELSE 0
  /\ rec.adapter \in AzureAdapters => Count(rec.trace, "identity.create") = 1

\* The one error of a failed resolution names the last source attempted.
NamesLastSource(rec) ==
  /\ Len(rec.err) = 2
  /\ rec.err[1] = "refreshing token"
  /\ ErrSource(rec.err[2]) = rec.trace[Len(rec.trace)].src

\* C6 as stated: Resolve returns an error only when every applicable source
\* has been attempted and none yielded a usable token, and the error names
\* the last source attempted.
C6_Original ==
  \A c \in Callers :
    ResolveFailed(call[c]) =>
      /\ AllApplicableAttempted(call[c])
      /\ ~Yielded(call[c].trace)
      /\ NamesLastSource(call[c])

\* C6 amended: Resolve returns an error only when every applicable source has
\* been attempted and either none yielded a usable token (an expired stored
\* token that must be refreshed is not one) or the refresh round-trip yielded
\* one and writing it back to the store failed; the error names the last
\* source attempted.
C6_FailsOnlyWhenExhausted ==
  \A c \in Callers :
    ResolveFailed(call[c]) =>
      /\ AllApplicableAttempted(call[c])
      /\ \/ ~Yielded(call[c].trace)
         \/ /\ call[c].err = <<"refreshing token", "saving refreshed token">>
            /\ call[c].trace[Len(call[c].trace)] = Ev("store.save", "openai", "error")
            /\ Has(call[c].trace, "refresh", "ok")
            /\ ~YieldedBy(call[c].trace, TokenSources \ {"refresh"})
      /\ NamesLastSource(call[c])

C6_Witness ==
  \E c \in Callers :
    /\ call[c].adapter = "claude"
    /\ goos = "darwin"
    /\ ResolveFailed(call[c])
    /\ Has(call[c].trace, "keychain", "badshape")
    /\ call[c].err = <<"refreshing token", "no credentials for anthropic">>

C8_PerCall ==
  \A c \in Callers :
    (call[c].adapter # "" /\ AdapterCfg(call[c].adapter).hasTokenSource) =>
      /\ Count(call[c].trace, "tokenSource") = 1
      /\ Pos(call[c].trace, "tokenSource") = 1
      /\ call[c].req.sent =>
           /\ Pos(call[c].trace, "backend") = Len(call[c].trace)
           /\ call[c].req.apiKey = call[c].tok
           /\ call[c].req.apiKey # AdapterCfg(call[c].adapter).clientKey

C8_FromCurrentSources ==
  \A c \in Callers :
    /\ (Starts(c, {"claude"}) /\ envKey # Empty) => call'[c].tok = envKey
    /\ (Starts(c, {"claude"}) /\ LoadedFrom(call'[c].trace)) =>
         call'[c].tok = store["anthropic"].AccessToken
    /\ (Starts(c, OpenAIAdapters) /\ call'[c].pc = "backend"
          /\ LoadedFrom(call'[c].trace)) =>
         call'[c].tok = store["openai"].AccessToken
    /\ (call[c].pc = "save" /\ call'[c].pc = "backend") =>
         call'[c].tok = store'["openai"].AccessToken
    /\ (call[c].pc = "backend" /\ call'[c].pc = "done") =>
         /\ call'[c].req.sent
         /\ call'[c].tok = call[c].tok
    /\ (call[c].pc = "done" /\ call'[c].pc # "done") => call'[c] = IdleCall

C8_NoCaching == [] C8_PerCall /\ [][C8_FromCurrentSources]_vars

C8_Witness ==
  \E c \in Callers :
    /\ call[c].adapter = "codex"
    /\ call[c].pc = "done"
    /\ call[c].req.sent
    /\ call[c].req.apiKey = NewAccess(2)
    /\ gen = 2

\* The prefix of a backend error, per adapter.
StagePrefix(a) ==
  CASE a \in ClaudeAdapters -> "claude API call"
    [] a \in CodexAdapters -> "codex API call"
    [] a \in AzureAdapters -> "Azure OpenAI API call"
    [] OTHER -> "none"

\* C9: Chat never yields a partial result: a response and no error, or no
\* response and an error. A failed resolution gives an error with the
\* credential-refresh prefix and no backend call; a failed backend call gives
\* an error with the backend-call prefix and no response.
C9_NoPartialResult ==
  \A c \in Callers :
    /\ call[c].resp.present => call[c].pc = "done" /\ call[c].err = NoErr
    /\ call[c].pc = "done" =>
         /\ call[c].resp.present \/ call[c].err # NoErr
         /\ Count(call[c].trace, "backend") = 0 =>
              /\ call[c].err # NoErr
              /\ Head(call[c].err) = "refreshing token"
              /\ ~call[c].req.sent
              /\ ~call[c].resp.present
         /\ Has(call[c].trace, "backend", "error") =>
              /\ call[c].err # NoErr
              /\ Head(call[c].err) = StagePrefix(call[c].adapter)
              /\ ~call[c].resp.present
         /\ Has(call[c].trace, "backend", "ok") =>
              call[c].resp.present /\ call[c].err = NoErr

C9_Witness ==
  \E c \in Callers :
    /\ call[c].adapter = "azure"
    /\ call[c].pc = "done"
    /\ Has(call[c].trace, "backend", "error")
    /\ Head(call[c].err) = "Azure OpenAI API call"

\* C10: no retry: within one Chat call the backend is invoked at most once
\* and every credential source (the environment variable, each keychain
\* service, the identity provider, the store load, the refresh endpoint, the
\* store write) is attempted at most once.
C10_NoRetry ==
  \A c \in Callers :
    /\ Count(call[c].trace, "backend") <= 1
    /\ \A i, j \in 1..Len(call[c].trace) :
         (call[c].trace[i].src = call[c].trace[j].src
            /\ call[c].trace[i].name = call[c].trace[j].name) => i = j

C10_Witness ==
  \E c \in Callers :
    /\ call[c].adapter = "claude"
    /\ call[c].pc = "done"
    /\ Count(call[c].trace, "keychain") = 5
    /\ Has(call[c].trace, "keychain", "badshape")
    /\ Has(call[c].trace, "store.load", "ok")
    /\ Has(call[c].trace, "backend", "error")


\* The backend API of an adapter, as its constructor fixed it.
BackendOf(a) ==
  CASE a \in ClaudeAdapters -> "messages"
    [] a \in CodexAdapters -> "responses"
    [] a \in AzureAdapters -> "chat.completions"
    [] OTHER -> "none"

\* C11: the backend variant of an adapter is fixed at construction and is the
\* same in every Chat call on it, whichever credential source wins; every
\* request to the enterprise backend carries the configured API version as
\* the query parameter api-version, and never as a header.
C11_BackendFixed ==
  \A c \in Callers :
    call[c].req.sent =>
      /\ call[c].req.api = BackendOf(call[c].adapter)
      /\ "api-version" \notin call[c].req.headers
      /\ IF call[c].adapter \in AzureAdapters
         THEN /\ AdapterCfg(call[c].adapter).azureConfig.APIVersion # ""
              /\ call[c].req.apiVersionQuery =
                   AdapterCfg(call[c].adapter).azureConfig.APIVersion
         ELSE call[c].req.apiVersionQuery = ""

C11_Witness ==
  \E c \in Callers :
    /\ call[c].adapter = "azure"
    /\ call[c].req.sent
    /\ Has(call[c].trace, "identity.token", "error")
    /\ Has(call[c].trace, "store.save", "ok")
    /\ call[c].req.api = "chat.completions"
    /\ call[c].req.apiVersionQuery = "2024-02-15-preview"


\* ------------------------------------------- enterprise configuration loading
\* The environment variables LoadAzureConfigFromEnv reads.
RequiredAzureVars ==
  <<"AZURE_OPENAI_ENDPOINT", "AZURE_OPENAI_DEPLOYMENT",
    "AZURE_OPENAI_API_VERSION", "AZURE_OPENAI_SCOPE">>

AzureVars ==
  {RequiredAzureVars[i] : i \in 1..Len(RequiredAzureVars)}
  \cup {"AZURE_OPENAI_MANAGED_IDENTITY_CLIENT_ID", "AZURE_OPENAI_VERBOSE"}

\* A value for each variable when it is set.
SampleValue(var) ==
  CASE var = "AZURE_OPENAI_ENDPOINT" -> "https://res.openai.azure.com"
    [] var = "AZURE_OPENAI_DEPLOYMENT" -> "gpt-5.2-chat"
    [] var = "AZURE_OPENAI_API_VERSION" -> "2024-02-15-preview"
    [] var = "AZURE_OPENAI_SCOPE" -> "https://cognitiveservices.azure.com/.default"
    [] var = "AZURE_OPENAI_MANAGED_IDENTITY_CLIENT_ID" -> "client-id"
    [] OTHER -> "true"

\* Every environment: each variable unset (empty) or set.
AzureEnvs ==
  {env \in [AzureVars -> {"", "https://res.openai.azure.com", "gpt-5.2-chat",
                          "2024-02-15-preview",
                          "https://cognitiveservices.azure.com/.default",
                          "client-id", "true"}] :
     \A var \in AzureVars : env[var] \in {"", SampleValue(var)}}

\* The required variables that are empty, in the order the code tests them.
RECURSIVE MissingFrom(_, _)
MissingFrom(env, i) ==
  IF i > Len(RequiredAzureVars) THEN << >>
  ELSE (IF env[RequiredAzureVars[i]] = "" THEN <<RequiredAzureVars[i]>> ELSE << >>)
       \o MissingFrom(env, i + 1)

\* The configuration LoadAzureConfigFromEnv builds.
AzureConfigFromEnv(env) ==
  [configured |-> TRUE,
   Endpoint |-> env["AZURE_OPENAI_ENDPOINT"],
   Deployment |-> env["AZURE_OPENAI_DEPLOYMENT"],
   APIVersion |-> env["AZURE_OPENAI_API_VERSION"],
   Scope |-> env["AZURE_OPENAI_SCOPE"],
   ManagedIdentityID |-> env["AZURE_OPENAI_MANAGED_IDENTITY_CLIENT_ID"],
   UseManagedIdentity |-> TRUE,
   Verbose |-> env["AZURE_OPENAI_VERBOSE"] = "true"]

\* LoadAzureConfigFromEnv: (nil, nil) when Azure is not in use, (nil, error
\* listing the missing variables), or (config, nil).
LoadAzureConfigFromEnv(env) ==
  IF /\ env["AZURE_OPENAI_ENDPOINT"] = ""
     /\ env["AZURE_OPENAI_DEPLOYMENT"] = ""
     /\ env["AZURE_OPENAI_API_VERSION"] = ""
  THEN [config |-> NoAzure, err |-> NoErr, missing |-> << >>]
  ELSE LET missing == MissingFrom(env, 1)
       IN IF Len(missing) > 0
          THEN [config |-> NoAzure,
                err |-> <<"missing required Azure OpenAI environment variables">>,
                missing |-> missing]
          ELSE [config |-> AzureConfigFromEnv(env), err |-> NoErr,
                missing |-> << >>]

\* NewCodexProviderAuto: the provider it constructs (its backend), or the
\* error; tokenErr is the outcome of the first call of the token source of
\* the standard OpenAI provider.
NewCodexProviderAuto(env, tokenErr) ==
  LET loaded == LoadAzureConfigFromEnv(env)
  IN IF loaded.err # NoErr
     THEN [provider |-> "none", azureConfig |-> NoAzure,
           err |-> Wrap("failed to load Azure config", loaded.err),
           missing |-> loaded.missing]
     ELSE IF loaded.config.configured
     THEN [provider |-> "chat.completions", azureConfig |-> loaded.config,
           err |-> NoErr, missing |-> << >>]
     ELSE IF tokenErr
     THEN [provider |-> "none", azureConfig |-> NoAzure,
           err |-> <<"failed to retrieve OpenAI token">>, missing |-> << >>]
     ELSE [provider |-> "responses", azureConfig |-> NoAzure,
           err |-> NoErr, missing |-> << >>]

AzureEnvInput(env) == [kind |-> "azureEnv", env |-> env]

\* LoadAzureConfigFromEnv is called.
LoadConfig ==
  /\ input.kind = "azureEnv"
  /\ output' = [fn |-> "LoadAzureConfigFromEnv",
                val |-> LoadAzureConfigFromEnv(input.env)]
  /\ UNCHANGED <<goos, envKey, store, now, gen, call, ctx, input>>

\* NewCodexProviderAuto is called.
NewAuto ==
  /\ input.kind = "azureEnv"
  /\ \E tokenErr \in BOOLEAN :
       output' = [fn |-> "NewCodexProviderAuto",
                  val |-> NewCodexProviderAuto(input.env, tokenErr)]
  /\ UNCHANGED <<goos, envKey, store, now, gen, call, ctx, input>>

\* The state outside the function under study.
InitIdle ==
  /\ goos = "linux"
  /\ envKey = Empty
  /\ store = [p \in StoreProviders |-> NoCred]
  /\ now = 0
  /\ gen = 0
  /\ call = [c \in Callers |-> IdleCall]
  /\ ctx = [c \in Callers |-> LiveCtx]
  /\ output = NoOutput

InitConfig == InitIdle /\ input \in {AzureEnvInput(env) : env \in AzureEnvs}

NextConfig == LoadConfig \/ NewAuto

SpecConfig == InitConfig /\ [][NextConfig]_vars

\* The required variables that are set in an environment.
RequiredSet(env) ==
  {i \in 1..Len(RequiredAzureVars) : env[RequiredAzureVars[i]] # ""}

\* C12: the enterprise configuration is all-or-nothing: with at least one of
\* the four required variables set and at least one empty,
\* LoadAzureConfigFromEnv and NewCodexProviderAuto fail with an error listing
\* exactly the missing variables; "not configured" without error is reported
\* only when none of the four is set; a configuration is returned only when
\* all four are set.
C12_AllOrNothing ==
  (input.kind = "azureEnv" /\ output.fn \in {"LoadAzureConfigFromEnv",
                                              "NewCodexProviderAuto"}) =>
    LET nset == Cardinality(RequiredSet(input.env))
        r == output.val
        config == IF output.fn = "LoadAzureConfigFromEnv"
                  THEN r.config ELSE r.azureConfig
    IN /\ (nset > 0 /\ nset < Len(RequiredAzureVars)) =>
            /\ r.err # NoErr
            /\ ~config.configured
            /\ r.missing = MissingFrom(input.env, 1)
       /\ nset = 0 =>
            /\ ~config.configured
            /\ output.fn = "LoadAzureConfigFromEnv" => r.err = NoErr
       /\ nset = Len(RequiredAzureVars) =>
            /\ r.err = NoErr
            /\ config.configured
            /\ config.Scope = input.env["AZURE_OPENAI_SCOPE"]


\* The blocking network steps of a resolution.
NetworkSteps == {"identity.token", "refresh"}

\* C13: the caller's cancellation context is honored end-to-end: once the
\* context passed to Chat is canceled, before or during the resolution, no
\* identity-token fetch and no OAuth refresh is completed in that call, and
\* no backend call succeeds.
C13_CancelHonored ==
  \A c \in Callers :
    ctx[c].canceled =>
      \A i \in 1..Len(call[c].trace) :
        i > ctx[c].at =>
          /\ ~(/\ call[c].trace[i].src \in NetworkSteps
               /\ call[c].trace[i].out \in {"ok", "hit", "empty"})
          /\ ~(call[c].trace[i].src = "backend" /\ call[c].trace[i].out = "ok")


\* The priority order of the keychain services.
ServiceOrder == <<"Anthropic", "Agency", "Claude Code">>

C15_ShapeChecked ==
  \A c \in Callers :
    (call[c].adapter = "claude" /\ Count(call[c].trace, "keychain") > 0) =>
      /\ Has(call[c].trace, "keychain", "hit") =>
           /\ call[c].err = NoErr
           /\ HasPrefix(call[c].tok, SkAntPrefix)
      /\ ~Has(call[c].trace, "keychain", "hit") =>
           Count(call[c].trace, "store.load") = 1


\* ------------------------------------------------------ canonical messages
\* Longest message list handed to a translator.
MaxMsgs == 2

TextA == <<"a">>
TextB == <<"b">>

\* JSON text of a map of strings, as json.Marshal writes it: null for a nil
\* map, else the members in key order.
Quote(str) == <<"\"">> \o str \o <<"\"">>

RECURSIVE MarshalMembers(_)
MarshalMembers(pairs) ==
  IF pairs = << >> THEN << >>
  ELSE Quote(pairs[1][1]) \o <<":">> \o Quote(pairs[1][2])
       \o (IF Len(pairs) > 1 THEN <<",">> ELSE << >>)
       \o MarshalMembers(Tail(pairs))

\* A nil map[string]interface{}.
NilMap == [nil |-> TRUE, pairs |-> << >>]

MapOf(pairs) == [nil |-> FALSE, pairs |-> pairs]

JsonMarshal(m) ==
  IF m.nil THEN <<"n", "u", "l", "l">>
  ELSE <<"{">> \o MarshalMembers(m.pairs) \o <<"}">>

ArgsCity == MapOf(<< <<TextA, TextB>> >>)

ToolCall(id, name, args) == [ID |-> id, Name |-> name, Arguments |-> args]

TC1 == ToolCall("t1", "get_weather", ArgsCity)
TC2 == ToolCall("t2", "get_time", MapOf(<< >>))

Message(role, content, toolCallID, toolCalls) ==
  [Role |-> role, Content |-> content, ToolCallID |-> toolCallID,
   ToolCalls |-> toolCalls]

Messages ==
  {Message("system", TextA, "", << >>),
   Message("system", TextB, "", << >>),
   Message("system", Empty, "", << >>),
   Message("user", TextA, "", << >>),
   Message("user", TextB, "t1", << >>),
   Message("tool", TextB, "t2", << >>),
   Message("function", TextA, "", << >>)}
  \cup {Message("assistant", content, "", tcs) :
          content \in {TextA, Empty},
          tcs \in {<< >>, <<TC1>>, <<TC1, TC2>>}}

MessageLists == UNION {[1..n -> Messages] : n \in 0..MaxMsgs}

\* options: a value of the dynamic type the code asserts, of another type,
\* or none.
NoOpt == [type |-> "absent", val |-> 0]

IntOpt(v) == [type |-> "int", val |-> v]

FloatOpt(v) == [type |-> "float64", val |-> v]

Options ==
  [max_tokens : {NoOpt, IntOpt(100), FloatOpt(100)},
   temperature : {NoOpt, FloatOpt(7), IntOpt(1)}]

\* A JSON value inside a tool schema.
JStr(v) == [t |-> "string", v |-> v]

JNum(v) == [t |-> "number", v |-> v]

\* ToolDefinition.Function: Parameters holds "properties" and, when hasReq,
\* "required" as a []interface{}.
ToolDefinition(name, description, hasReq, required) ==
  [Name |-> name, Description |-> description,
   Parameters |-> [properties |-> <<"properties of", name>>, hasRequired |-> hasReq,
                   required |-> required]]

ToolLists ==
  {<< >>,
   <<ToolDefinition("get_weather", "d", TRUE, <<JStr("city"), JNum("1")>>)>>,
   <<ToolDefinition("get_time", "", FALSE, << >>)>>,
   <<ToolDefinition("get_time", "", FALSE, << >>),
     ToolDefinition("get_weather", "d", TRUE,
                    <<JNum("1"), JStr("city"), JStr("unit")>>)>>}


\* -------------------------------------------------------------- translators
\* Absent optional field of a request.
Absent == [set |-> FALSE, val |-> 0]

Opt(v) == [set |-> TRUE, val |-> v]

\* Flattening of a sequence of sequences.
RECURSIVE Flatten(_)
Flatten(ss) == IF ss = << >> THEN << >> ELSE Head(ss) \o Flatten(Tail(ss))

MapSeq(f(_), sq) == [i \in 1..Len(sq) |-> f(sq[i])]

IsSystem(m) == m.Role = "system"

\* Content blocks of the direct-message API.
TextBlock(text) == [type |-> "text", text |-> text]

ToolResultBlock(id, content) ==
  [type |-> "tool_result", tool_use_id |-> id, content |-> content,
   is_error |-> FALSE]

ToolUseBlock(id, in, name) ==
  [type |-> "tool_use", id |-> id, input |-> in, name |-> name]

ToolUseOf(tc) == ToolUseBlock(tc.ID, tc.Arguments, tc.Name)

\* The messages one canonical message becomes in buildClaudeParams.
ClaudeMessageOf(msg) ==
  CASE msg.Role = "user" ->
         IF msg.ToolCallID # ""
         THEN <<[role |-> "user",
                 blocks |-> <<ToolResultBlock(msg.ToolCallID, msg.Content)>>]>>
         ELSE <<[role |-> "user", blocks |-> <<TextBlock(msg.Content)>>]>>
    [] msg.Role = "assistant" ->
         IF Len(msg.ToolCalls) > 0
         THEN <<[role |-> "assistant",
                 blocks |->
                   (IF msg.Content # Empty THEN <<TextBlock(msg.Content)>>
                    ELSE << >>) \o MapSeq(ToolUseOf, msg.ToolCalls)]>>
         ELSE <<[role |-> "assistant", blocks |-> <<TextBlock(msg.Content)>>]>>
    [] msg.Role = "tool" ->
         <<[role |-> "user",
            blocks |-> <<ToolResultBlock(msg.ToolCallID, msg.Content)>>]>>
    [] OTHER -> << >>

DefaultMaxTokens == 4096

\* The "required" entries that are strings.
RequiredStrings(req) ==
  LET strs == SelectSeq(req, LAMBDA r : r.t = "string")
  IN [i \in 1..Len(strs) |-> strs[i].v]

ClaudeToolOf(t) ==
  [Name |-> t.Name,
   InputSchema |->
     [Properties |-> t.Parameters.properties,
      Required |-> IF t.Parameters.hasRequired
                   THEN Opt(RequiredStrings(t.Parameters.required))
                   ELSE Absent],
   Description |-> IF t.Description # "" THEN Opt(t.Description) ELSE Absent]

translateToolsForClaude(tools) == MapSeq(ClaudeToolOf, tools)

ContentOf(m) == m.Content

buildClaudeParams(messages, tools, model, options) ==
  LET system == MapSeq(ContentOf, SelectSeq(messages, IsSystem))
  IN [Model |-> model,
      Messages |-> Flatten(MapSeq(ClaudeMessageOf, messages)),
      MaxTokens |-> IF options.max_tokens.type = "int"
                    THEN options.max_tokens.val ELSE DefaultMaxTokens,
      System |-> IF Len(system) > 0 THEN Opt(system) ELSE Absent,
      Temperature |-> IF options.temperature.type = "float64"
                      THEN Opt(options.temperature.val) ELSE Absent,
      Tools |-> IF Len(tools) > 0 THEN Opt(translateToolsForClaude(tools))
                ELSE Absent]

\* Input items of the response-stream API.
EasyMessage(role, content) ==
  [type |-> "message", role |-> role, content |-> content]

FunctionCallOutput(id, out) ==
  [type |-> "function_call_output", call_id |-> id, output |-> out]

FunctionCall(id, name, arguments) ==
  [type |-> "function_call", call_id |-> id, name |-> name,
   arguments |-> arguments]

FunctionCallOf(tc) == FunctionCall(tc.ID, tc.Name, JsonMarshal(tc.Arguments))

\* The input items one canonical message becomes in buildCodexParams.
CodexItemsOf(msg) ==
  CASE msg.Role = "user" ->
         IF msg.ToolCallID # ""
         THEN <<FunctionCallOutput(msg.ToolCallID, msg.Content)>>
         ELSE <<EasyMessage("user", msg.Content)>>
    [] msg.Role = "assistant" ->
         IF Len(msg.ToolCalls) > 0
         THEN (IF msg.Content # Empty
               THEN <<EasyMessage("assistant", msg.Content)>> ELSE << >>)
              \o MapSeq(FunctionCallOf, msg.ToolCalls)
         ELSE <<EasyMessage("assistant", msg.Content)>>
    [] msg.Role = "tool" ->
         <<FunctionCallOutput(msg.ToolCallID, msg.Content)>>
    [] OTHER -> << >>

\* The text "You are Codex, a coding assistant.", kept in one piece.
defaultCodexInstructions == <<"You are Codex, a coding assistant.">>

\* `instructions = msg.Content` at every system message: the value after the
\* loop is the content of the last one.
RECURSIVE InstructionsAfter(_, _)
InstructionsAfter(messages, instructions) ==
  IF messages = << >> THEN instructions
  ELSE InstructionsAfter(Tail(messages),
                         IF Head(messages).Role = "system"
                         THEN Head(messages).Content ELSE instructions)

CodexToolOf(t) ==
  [Name |-> t.Name, Parameters |-> t.Parameters, Strict |-> FALSE,
   Description |-> IF t.Description # "" THEN Opt(t.Description) ELSE Absent]

translateToolsForCodex(tools) == MapSeq(CodexToolOf, tools)

buildCodexParams(messages, tools, model, options) ==
  LET instructions == InstructionsAfter(messages, Empty)
  IN [Model |-> model,
      Input |-> Flatten(MapSeq(CodexItemsOf, messages)),
      Store |-> FALSE,
      Instructions |-> IF instructions # Empty THEN Opt(instructions)
                       ELSE Opt(defaultCodexInstructions),
      MaxOutputTokens |-> IF options.max_tokens.type = "int"
                          THEN Opt(options.max_tokens.val) ELSE Absent,
      Temperature |-> IF options.temperature.type = "float64"
                      THEN Opt(options.temperature.val) ELSE Absent,
      Tools |-> IF Len(tools) > 0 THEN Opt(translateToolsForCodex(tools))
                ELSE Absent]

\* Messages of the chat-completion API.
ChatMessage(role, content, toolCallID) ==
  [role |-> role, content |-> content, tool_call_id |-> toolCallID]

\* The messages one canonical message becomes in chatAzure.
AzureMessageOf(msg) ==
  CASE msg.Role = "system" -> <<ChatMessage("system", msg.Content, "")>>
    [] msg.Role = "user" -> <<ChatMessage("user", msg.Content, "")>>
    [] msg.Role = "assistant" -> <<ChatMessage("assistant", msg.Content, "")>>
    [] msg.Role = "tool" -> <<ChatMessage("tool", msg.Content, msg.ToolCallID)>>
    [] OTHER -> << >>

\* chatAzure with the temperature override sent.
chatAzureParams_SendsTemperature(messages, tools, model, options) ==
  [Model |-> model,
   Messages |-> Flatten(MapSeq(AzureMessageOf, messages)),
   MaxCompletionTokens |-> IF options.max_tokens.type = "int"
                           THEN Opt(options.max_tokens.val) ELSE Absent,
   Temperature |-> IF options.temperature.type = "float64"
                   THEN Opt(options.temperature.val) ELSE Absent,
   Tools |-> Absent]

\* The parameters chatAzure builds; tools and temperature are not used.
chatAzureParams(messages, tools, model, options) ==
  [Model |-> model,
   Messages |-> Flatten(MapSeq(AzureMessageOf, messages)),
   MaxCompletionTokens |-> IF options.max_tokens.type = "int"
                           THEN Opt(options.max_tokens.val) ELSE Absent,
   Temperature |-> Absent,
   Tools |-> Absent]


\* The arguments of one Chat call, as the translators get them.
ChatInput(messages, tools, options) ==
  [kind |-> "chat", messages |-> messages, tools |-> tools,
   model |-> "model-1", options |-> options]

ChatInputs ==
  {ChatInput(ms, ts, os) : ms \in MessageLists, ts \in ToolLists, os \in Options}

\* buildClaudeParams is applied to the arguments.
BuildClaude ==
  /\ input.kind = "chat"
  /\ output' = [fn |-> "buildClaudeParams",
                val |-> buildClaudeParams(input.messages, input.tools,
                                          input.model, input.options)]
  /\ UNCHANGED <<goos, envKey, store, now, gen, call, ctx, input>>

\* buildCodexParams is applied to the arguments.
BuildCodex ==
  /\ input.kind = "chat"
  /\ output' = [fn |-> "buildCodexParams",
                val |-> buildCodexParams(input.messages, input.tools,
                                         input.model, input.options)]
  /\ UNCHANGED <<goos, envKey, store, now, gen, call, ctx, input>>

\* chatAzure builds its parameters from the arguments.
BuildAzure ==
  /\ input.kind = "chat"
  /\ output' = [fn |-> "chatAzure",
                val |-> chatAzureParams(input.messages, input.tools,
                                        input.model, input.options)]
  /\ UNCHANGED <<goos, envKey, store, now, gen, call, ctx, input>>

InitBuild == InitIdle /\ input \in ChatInputs

NextBuild == BuildClaude \/ BuildCodex \/ BuildAzure

SpecBuild == InitBuild /\ [][NextBuild]_vars

Translators == {"buildClaudeParams", "buildCodexParams", "chatAzure"}

Built == input.kind = "chat" /\ output.fn \in Translators

\* The content blocks of the built direct-message request, in order.
ClaudeBlocks(params) ==
  Flatten([i \in 1..Len(params.Messages) |-> params.Messages[i].blocks])

\* The IDs the tool-result constructs of the built request are keyed by.
ToolResultIDs(fn, params) ==
  CASE fn = "buildClaudeParams" ->
         LET bs == SelectSeq(ClaudeBlocks(params),
                             LAMBDA b : b.type = "tool_result")
         IN [i \in 1..Len(bs) |-> bs[i].tool_use_id]
    [] fn = "buildCodexParams" ->
         LET is == SelectSeq(params.Input,
                             LAMBDA it : it.type = "function_call_output")
         IN [i \in 1..Len(is) |-> is[i].call_id]
    [] OTHER ->
         LET ms == SelectSeq(params.Messages, LAMBDA m : m.role = "tool")
         IN [i \in 1..Len(ms) |-> ms[i].tool_call_id]

\* A tool-result message: role tool, or role user with a toolCallID.
IsToolResult(m) ==
  m.Role = "tool" \/ (m.Role = "user" /\ m.ToolCallID # "")

\* C16: for every message list and each translator, the built request holds
\* exactly one tool-result construct per tool-result message (role tool, or
\* role user with a non-empty toolCallID), keyed by that message's
\* toolCallID, and none for any other message.
C16_ToolResults ==
  Built =>
    LET trs == SelectSeq(input.messages, IsToolResult)
    IN ToolResultIDs(output.fn, output.val) =
         [i \in 1..Len(trs) |-> trs[i].ToolCallID]


\* A text portion and a tool invocation, in the form common to the backends.
TextPart(text) == [kind |-> "text", text |-> text]

Invocation(id, name, args) ==
  [kind |-> "invoke", id |-> id, name |-> name, args |-> args]

\* What the built request carries for the assistant turns, in order.
AssistantParts(fn, params) ==
  CASE fn = "buildClaudeParams" ->
         LET ms == SelectSeq(params.Messages, LAMBDA m : m.role = "assistant")
             bs == Flatten([i \in 1..Len(ms) |-> ms[i].blocks])
         IN [i \in 1..Len(bs) |->
               IF bs[i].type = "tool_use"
               THEN Invocation(bs[i].id, bs[i].name, bs[i].input)
               ELSE TextPart(bs[i].text)]
    [] fn = "buildCodexParams" ->
         LET is == SelectSeq(params.Input,
                             LAMBDA it : \/ it.type = "function_call"
                                         \/ /\ it.type = "message"
                                            /\ it.role = "assistant")
         IN [i \in 1..Len(is) |->
               IF is[i].type = "function_call"
               THEN Invocation(is[i].call_id, is[i].name, is[i].arguments)
               ELSE TextPart(is[i].content)]
    [] OTHER ->
         LET ms == SelectSeq(params.Messages, LAMBDA m : m.role = "assistant")
         IN [i \in 1..Len(ms) |-> TextPart(ms[i].content)]

\* The form in which a translator's backend takes the arguments of a call:
\* the map itself for the direct-message SDK, its JSON text for the others.
ArgsFor(fn, tc) ==
  IF fn = "buildClaudeParams" THEN tc.Arguments ELSE JsonMarshal(tc.Arguments)

\* What the specification prescribes for one assistant message.
ExpectedParts(fn, m) ==
  IF Len(m.ToolCalls) > 0
  THEN (IF m.Content # Empty THEN <<TextPart(m.Content)>> ELSE << >>)
       \o [i \in 1..Len(m.ToolCalls) |->
             Invocation(m.ToolCalls[i].ID, m.ToolCalls[i].Name,
                        ArgsFor(fn, m.ToolCalls[i]))]
  ELSE <<TextPart(m.Content)>>

\* C17: for each translator, an assistant message with N >= 1 tool calls
\* becomes the text portion first (only when the content is non-empty)
\* followed by exactly N tool invocations in the same order, each with the
\* call's ID, Name and Arguments.
C17_ToolInvocations ==
  Built =>
    LET as == SelectSeq(input.messages, LAMBDA m : m.Role = "assistant")
    IN AssistantParts(output.fn, output.val) =
         Flatten([i \in 1..Len(as) |-> ExpectedParts(output.fn, as[i])])

\* The system content of the message list, concatenated in order.
SystemContent(messages) ==
  Flatten(MapSeq(ContentOf, SelectSeq(messages, IsSystem)))

\* The system content the built request carries.
SystemCarried(fn, params) ==
  CASE fn = "buildClaudeParams" ->
         IF params.System.set THEN Flatten(params.System.val) ELSE Empty
    [] fn = "buildCodexParams" ->
         IF params.Instructions.set
            /\ params.Instructions.val # defaultCodexInstructions
         THEN params.Instructions.val ELSE Empty
    [] OTHER ->
         LET ms == SelectSeq(params.Messages, LAMBDA m : m.role = "system")
         IN Flatten([i \in 1..Len(ms) |-> ms[i].content])

\* C18: with several system messages the instruction/system field of the
\* built request carries the content of all of them in their order; no
\* system message's content is lost.
C18_SystemConcatenated ==
  Built => SystemCarried(output.fn, output.val) = SystemContent(input.messages)

\* C19: every request built by the response-stream translator has a
\* non-empty instructions field: the supplied system content when there is
\* non-empty system content, the fixed default otherwise.
C19_InstructionsNeverEmpty ==
  (input.kind = "chat" /\ output.fn = "buildCodexParams") =>
    /\ output.val.Instructions.set
    /\ output.val.Instructions.val # Empty
    /\ IF SystemContent(input.messages) # Empty
       THEN /\ output.val.Instructions.val # defaultCodexInstructions
            /\ \E i \in 1..Len(input.messages) :
                 /\ input.messages[i].Role = "system"
                 /\ input.messages[i].Content # Empty
                 /\ output.val.Instructions.val = input.messages[i].Content
       ELSE output.val.Instructions.val = defaultCodexInstructions

\* ------------------------------------------------------------ normalizers
\* Longest list of content blocks, output items or tool calls in a backend
\* response handed to a normalizer.
MaxBlocks == 2

\* Index of the next double quote of text at or after i, 0 when there is none.
RECURSIVE CloseQuote(_, _)
CloseQuote(text, i) ==
  IF i > Len(text) THEN 0
  ELSE IF text[i] = "\"" THEN i
  ELSE CloseQuote(text, i + 1)

\* The JSON string that starts at text[i] and the index after it.
ScanString(text, i) ==
  IF i <= Len(text) /\ text[i] = "\"" /\ CloseQuote(text, i + 1) # 0
  THEN [ok |-> TRUE,
        val |-> SubSeq(text, i + 1, CloseQuote(text, i + 1) - 1),
        next |-> CloseQuote(text, i + 1) + 1]
  ELSE [ok |-> FALSE, val |-> << >>, next |-> i]

NoMembers == [ok |-> FALSE, pairs |-> << >>, next |-> 0]

\* The members "key":"value" of an object from text[i] up to its closing
\* brace, and the index after the brace.
RECURSIVE ScanMembers(_, _, _)
ScanMembers(text, i, acc) ==
  LET k == ScanString(text, i) IN
  IF ~k.ok \/ k.next > Len(text) \/ text[k.next] # ":" THEN NoMembers
  ELSE
    LET v == ScanString(text, k.next + 1) IN
    IF ~v.ok \/ v.next > Len(text) THEN NoMembers
    ELSE IF text[v.next] = "}"
      THEN [ok |-> TRUE, pairs |-> Append(acc, <<k.val, v.val>>),
            next |-> v.next + 1]
    ELSE IF text[v.next] = ","
      THEN ScanMembers(text, v.next + 1, Append(acc, <<k.val, v.val>>))
    ELSE NoMembers

\* The JSON object of string members that is the whole of text.
ScanObject(text) ==
  IF Len(text) < 2 \/ text[1] # "{" THEN NoMembers
  ELSE IF text[2] = "}" THEN [ok |-> TRUE, pairs |-> << >>, next |-> 3]
  ELSE ScanMembers(text, 2, << >>)

JsonNull == <<"n", "u", "l", "l">>

\* json.Unmarshal(text, &args) for args a nil map[string]interface{}, over
\* JSON without whitespace or escapes whose objects hold string members: null
\* leaves the map nil without error, an object fills the map, and anything
\* else (a syntax error, or a JSON value that is no object) returns an error
\* and leaves the map nil.
JsonUnmarshal(text) ==
  IF text = JsonNull THEN [err |-> FALSE, args |-> NilMap]
  ELSE IF ScanObject(text).ok /\ ScanObject(text).next = Len(text) + 1
    THEN [err |-> FALSE, args |-> MapOf(ScanObject(text).pairs)]
  ELSE [err |-> TRUE, args |-> NilMap]

\* map[string]interface{}{"raw": payload}
RawArgs(payload) == MapOf(<< <<(<<"r", "a", "w">>), payload>> >>)

\* Argument payloads of a tool invocation in a backend response: an object,
\* the empty object, null, an object cut off in the middle, the empty text,
\* and a JSON string.
PayloadObject == JsonMarshal(ArgsCity)
PayloadEmptyObject == <<"{", "}">>
PayloadTruncated == <<"{", "\"", "a", "\"", ":">>
PayloadNone == << >>
PayloadString == Quote(TextA)

Payloads ==
  {PayloadObject, PayloadEmptyObject, JsonNull, PayloadTruncated, PayloadNone,
   PayloadString}

\* *UsageInfo: nil, or the three counts.
NilUsage ==
  [nil |-> TRUE, PromptTokens |-> 0, CompletionTokens |-> 0, TotalTokens |-> 0]

UsageInfo(prompt, completion, total) ==
  [nil |-> FALSE, PromptTokens |-> prompt, CompletionTokens |-> completion,
   TotalTokens |-> total]

LLMResponse(content, toolCalls, finishReason, usage) ==
  [Content |-> content, ToolCalls |-> toolCalls,
   FinishReason |-> finishReason, Usage |-> usage]

\* Lists of at most MaxBlocks elements of S.
ListsOf(S) == UNION {[1..n -> S] : n \in 0..MaxBlocks}

\* Token counts a backend reports: [input, output, total].
BackendUsages == {[In |-> 0, Out |-> 0, Total |-> 0],
                  [In |-> 2, Out |-> 1, Total |-> 3]}

\* --- direct-message backend
\* anthropic.ContentBlockUnion
ClaudeBlock(type, text, id, name, inputJSON) ==
  [Type |-> type, Text |-> text, ID |-> id, Name |-> name, Input |-> inputJSON]

ClaudeBlockSamples ==
  {ClaudeBlock("text", TextA, "", "", << >>),
   ClaudeBlock("thinking", << >>, "", "", << >>)}
  \cup {ClaudeBlock("tool_use", << >>, "t1", "get_weather", p) : p \in Payloads}

ClaudeStopReasons == {"end_turn", "max_tokens", "tool_use", "stop_sequence", ""}

ClaudeResponses ==
  {[kind |-> "claudeResp", Content |-> bs, StopReason |-> sr, Usage |-> u] :
     bs \in ListsOf(ClaudeBlockSamples), sr \in ClaudeStopReasons,
     u \in BackendUsages}

\* Arguments of a tool invocation where the unmarshal error is tested.
ArgsOrRaw(payload) ==
  IF JsonUnmarshal(payload).err THEN RawArgs(payload)
  ELSE JsonUnmarshal(payload).args

RECURSIVE ClaudeContent(_)
ClaudeContent(blocks) ==
  IF blocks = << >> THEN << >>
  ELSE (IF blocks[1].Type = "text" THEN blocks[1].Text ELSE << >>)
       \o ClaudeContent(Tail(blocks))

RECURSIVE ClaudeToolCalls(_)
ClaudeToolCalls(blocks) ==
  IF blocks = << >> THEN << >>
  ELSE (IF blocks[1].Type = "tool_use"
        THEN <<ToolCall(blocks[1].ID, blocks[1].Name,
                        ArgsOrRaw(blocks[1].Input))>>
        ELSE << >>)
       \o ClaudeToolCalls(Tail(blocks))

ClaudeFinishReason(stopReason) ==
  CASE stopReason = "tool_use" -> "tool_calls"
    [] stopReason = "max_tokens" -> "length"
    [] stopReason = "end_turn" -> "stop"
    [] OTHER -> "stop"

parseClaudeResponse(resp) ==
  LLMResponse(ClaudeContent(resp.Content), ClaudeToolCalls(resp.Content),
              ClaudeFinishReason(resp.StopReason),
              UsageInfo(resp.Usage.In, resp.Usage.Out,
                        resp.Usage.In + resp.Usage.Out))

\* --- response-stream backend
\* responses.ResponseOutputItemUnion
CodexItem(type, content, callID, name, arguments) ==
  [Type |-> type, Content |-> content, CallID |-> callID, Name |-> name,
   Arguments |-> arguments]

CodexPart(type, text) == [Type |-> type, Text |-> text]

CodexItemSamples ==
  {CodexItem("message", <<CodexPart("output_text", TextA)>>, "", "", << >>),
   CodexItem("message", <<CodexPart("refusal", TextB),
                          CodexPart("output_text", TextB)>>, "", "", << >>),
   CodexItem("reasoning", << >>, "", "", << >>)}
  \cup {CodexItem("function_call", << >>, "t1", "get_weather", p) :
          p \in Payloads}

CodexStatuses == {"completed", "incomplete", "failed"}

CodexResponses ==
  {[kind |-> "codexResp", Output |-> items, Status |-> st, Usage |-> u] :
     items \in ListsOf(CodexItemSamples), st \in CodexStatuses,
     u \in BackendUsages}

RECURSIVE CodexPartsText(_)
CodexPartsText(parts) ==
  IF parts = << >> THEN << >>
  ELSE (IF parts[1].Type = "output_text" THEN parts[1].Text ELSE << >>)
       \o CodexPartsText(Tail(parts))

RECURSIVE CodexContent(_)
CodexContent(items) ==
  IF items = << >> THEN << >>
  ELSE (IF items[1].Type = "message" THEN CodexPartsText(items[1].Content)
        ELSE << >>)
       \o CodexContent(Tail(items))

RECURSIVE CodexToolCalls(_)
CodexToolCalls(items) ==
  IF items = << >> THEN << >>
  ELSE (IF items[1].Type = "function_call"
        THEN <<ToolCall(items[1].CallID, items[1].Name,
                        ArgsOrRaw(items[1].Arguments))>>
        ELSE << >>)
       \o CodexToolCalls(Tail(items))

CodexFinishReason(toolCalls, status) ==
  IF status = "incomplete" THEN "length"
  ELSE IF Len(toolCalls) > 0 THEN "tool_calls"
  ELSE "stop"

\* Usage when the reported total is tested.
UsageIfReported(prompt, completion, total) ==
  IF total > 0 THEN UsageInfo(prompt, completion, total) ELSE NilUsage

parseCodexResponse(resp) ==
  LLMResponse(CodexContent(resp.Output), CodexToolCalls(resp.Output),
              CodexFinishReason(CodexToolCalls(resp.Output), resp.Status),
              UsageIfReported(resp.Usage.In, resp.Usage.Out, resp.Usage.Total))

\* --- enterprise chat-completion backend
\* openai.ChatCompletionMessageToolCall
AzureToolCall(id, name, arguments) ==
  [ID |-> id, Function |-> [Name |-> name, Arguments |-> arguments]]

AzureToolCallSamples ==
  {AzureToolCall("t1", "get_weather", p) : p \in Payloads}

AzureFinishReasons == {"stop", "tool_calls", "length", "content_filter"}

AzureChoices ==
  {[Message |-> [Content |-> content, ToolCalls |-> tcs], FinishReason |-> fr] :
     content \in {<< >>, TextA}, tcs \in ListsOf(AzureToolCallSamples),
     fr \in AzureFinishReasons}

AzureResponses ==
  {[kind |-> "azureResp", Choices |-> cs, Usage |-> u] :
     cs \in {<< >>} \cup {<<ch>> : ch \in AzureChoices}, u \in BackendUsages}

\* Arguments of a tool invocation where the unmarshal error is dropped: the
\* payload is decoded when it is not empty, and the map is used as it is left.
ArgsIgnoringError(payload) ==
  IF payload # << >> THEN JsonUnmarshal(payload).args ELSE NilMap

RECURSIVE AzureToolCalls(_)
AzureToolCalls(tcs) ==
  IF tcs = << >> THEN << >>
  ELSE <<ToolCall(tcs[1].ID, tcs[1].Function.Name,
                  ArgsIgnoringError(tcs[1].Function.Arguments))>>
       \o AzureToolCalls(Tail(tcs))

parseChatCompletionResponse(resp) ==
  IF Len(resp.Choices) = 0
  THEN LLMResponse(<< >>, << >>, "error", NilUsage)
  ELSE LLMResponse(resp.Choices[1].Message.Content,
                   AzureToolCalls(resp.Choices[1].Message.ToolCalls),
                   resp.Choices[1].FinishReason,
                   UsageIfReported(resp.Usage.In, resp.Usage.Out,
                                   resp.Usage.Total))

\* --- the normalizers applied to any backend response
\* parseClaudeResponse is applied to the response.
ParseClaude ==
  /\ input.kind = "claudeResp"
  /\ output' = [fn |-> "parseClaudeResponse", val |-> parseClaudeResponse(input)]
  /\ UNCHANGED <<goos, envKey, store, now, gen, call, ctx, input>>

\* parseCodexResponse is applied to the response.
ParseCodex ==
  /\ input.kind = "codexResp"
  /\ output' = [fn |-> "parseCodexResponse", val |-> parseCodexResponse(input)]
  /\ UNCHANGED <<goos, envKey, store, now, gen, call, ctx, input>>

\* parseChatCompletionResponse is applied to the response.
ParseAzure ==
  /\ input.kind = "azureResp"
  /\ output' = [fn |-> "parseChatCompletionResponse",
                val |-> parseChatCompletionResponse(input)]
  /\ UNCHANGED <<goos, envKey, store, now, gen, call, ctx, input>>

InitParse ==
  /\ InitIdle
  /\ \/ input \in ClaudeResponses
     \/ input \in CodexResponses
     \/ input \in AzureResponses

NextParse == ParseClaude \/ ParseCodex \/ ParseAzure

SpecParse == InitParse /\ [][NextParse]_vars

Normalizers ==
  {"parseClaudeResponse", "parseCodexResponse", "parseChatCompletionResponse"}

Parsed == output.fn \in Normalizers

\* The tool invocations of a backend response as [ID, Name, Payload], in order.
RECURSIVE ClaudeInvocations(_)
ClaudeInvocations(blocks) ==
  IF blocks = << >> THEN << >>
  ELSE (IF blocks[1].Type = "tool_use"
        THEN <<[ID |-> blocks[1].ID, Name |-> blocks[1].Name,
                Payload |-> blocks[1].Input]>>
        ELSE << >>)
       \o ClaudeInvocations(Tail(blocks))

RECURSIVE CodexInvocations(_)
CodexInvocations(items) ==
  IF items = << >> THEN << >>
  ELSE (IF items[1].Type = "function_call"
        THEN <<[ID |-> items[1].CallID, Name |-> items[1].Name,
                Payload |-> items[1].Arguments]>>
        ELSE << >>)
       \o CodexInvocations(Tail(items))

InvocationsOf(resp) ==
  CASE resp.kind = "claudeResp" -> ClaudeInvocations(resp.Content)
    [] resp.kind = "codexResp" -> CodexInvocations(resp.Output)
    [] resp.kind = "azureResp" ->
         IF Len(resp.Choices) = 0 THEN << >>
         ELSE LET tcs == resp.Choices[1].Message.ToolCalls
              IN [i \in 1..Len(tcs) |->
                    [ID |-> tcs[i].ID, Name |-> tcs[i].Function.Name,
                     Payload |-> tcs[i].Function.Arguments]]

\* text is a JSON value: null, an object, or a string.
ValidJSON(text) ==
  \/ text = JsonNull
  \/ ScanObject(text).ok /\ ScanObject(text).next = Len(text) + 1
  \/ ScanString(text, 1).ok /\ ScanString(text, 1).next = Len(text) + 1

\* C20: every normalizer returns one ToolCall per tool invocation of the
\* response, and an invocation whose argument payload is not valid JSON keeps
\* its ID and Name and gets Arguments = {raw: the payload text}.
C20_RawWrapped ==
  Parsed =>
    LET invs == InvocationsOf(input)
        tcs == output.val.ToolCalls
    IN /\ Len(tcs) = Len(invs)
       /\ \A i \in 1..Len(invs) :
            ~ValidJSON(invs[i].Payload) =>
              /\ tcs[i].ID = invs[i].ID
              /\ tcs[i].Name = invs[i].Name
              /\ tcs[i].Arguments = RawArgs(invs[i].Payload)

\* The four canonical finish reasons.
CanonicalFinishReasons == {"stop", "tool_calls", "length", "error"}

\* The response carries a stop or finish reason the normalizer maps explicitly.
ExplicitlyMapped(resp) ==
  CASE resp.kind = "claudeResp" ->
         resp.StopReason \in {"tool_use", "max_tokens", "end_turn"}
    [] resp.kind = "codexResp" ->
         resp.Status = "incomplete" \/ CodexInvocations(resp.Output) # << >>
    [] resp.kind = "azureResp" ->
         \/ Len(resp.Choices) = 0
         \/ resp.Choices[1].FinishReason \in CanonicalFinishReasons

\* C21: every normalizer produces a FinishReason that is one of stop,
\* tool_calls, length, error, and a backend stop reason with no explicit
\* mapping yields stop.
C21_FinishReasonCanonical ==
  Parsed =>
    /\ output.val.FinishReason \in CanonicalFinishReasons
    /\ ~ExplicitlyMapped(input) => output.val.FinishReason = "stop"

\* The total token count the backend reported.
ReportedTotal(resp) ==
  IF resp.kind = "claudeResp" THEN resp.Usage.In + resp.Usage.Out
  ELSE resp.Usage.Total

\* C22: every normalizer sets Usage if and only if the backend reported a
\* non-zero total token count; with a zero total, Usage is nil and not a
\* zero-filled record.
C22_UsageIffReported ==
  Parsed => (output.val.Usage.nil <=> ReportedTotal(input) = 0)

\* ------------------------------------------------------------- round trip
\* A synthetic backend response whose invocation segments are the ones the
\* translator emitted in the request.
ClaudeEcho(params) ==
  LET bs == SelectSeq(ClaudeBlocks(params), LAMBDA b : b.type = "tool_use")
  IN [kind |-> "claudeResp",
      Content |-> [i \in 1..Len(bs) |->
                     ClaudeBlock("tool_use", << >>, bs[i].id, bs[i].name,
                                 JsonMarshal(bs[i].input))],
      StopReason |-> "tool_use",
      Usage |-> [In |-> 0, Out |-> 0, Total |-> 0]]

CodexEcho(params) ==
  LET is == SelectSeq(params.Input, LAMBDA it : it.type = "function_call")
  IN [kind |-> "codexResp",
      Output |-> [i \in 1..Len(is) |->
                    CodexItem("function_call", << >>, is[i].call_id,
                              is[i].name, is[i].arguments)],
      Status |-> "completed",
      Usage |-> [In |-> 0, Out |-> 0, Total |-> 0]]

\* The chat-completion messages chatAzure builds hold no invocation segment.
AzureEcho(params) ==
  [kind |-> "azureResp",
   Choices |-> <<[Message |-> [Content |-> << >>, ToolCalls |-> << >>],
                  FinishReason |-> "tool_calls"]>>,
   Usage |-> [In |-> 0, Out |-> 0, Total |-> 0]]

RoundInputs ==
  {ChatInput(ms, << >>, [max_tokens |-> NoOpt, temperature |-> NoOpt]) :
     ms \in MessageLists}

\* The direct-message adapter translates the messages and normalizes the
\* echoed response.
RoundTripClaude ==
  /\ input.kind = "chat"
  /\ output' = [fn |-> "roundTripClaude",
                val |-> parseClaudeResponse(ClaudeEcho(
                          buildClaudeParams(input.messages, input.tools,
                                            input.model, input.options)))]
  /\ UNCHANGED <<goos, envKey, store, now, gen, call, ctx, input>>

\* The response-stream adapter does the same.
RoundTripCodex ==
  /\ input.kind = "chat"
  /\ output' = [fn |-> "roundTripCodex",
                val |-> parseCodexResponse(CodexEcho(
                          buildCodexParams(input.messages, input.tools,
                                           input.model, input.options)))]
  /\ UNCHANGED <<goos, envKey, store, now, gen, call, ctx, input>>

\* The enterprise chat-completion adapter does the same.
RoundTripAzure ==
  /\ input.kind = "chat"
  /\ output' = [fn |-> "roundTripAzure",
                val |-> parseChatCompletionResponse(AzureEcho(
                          chatAzureParams(input.messages, input.tools,
                                          input.model, input.options)))]
  /\ UNCHANGED <<goos, envKey, store, now, gen, call, ctx, input>>

InitRound == InitIdle /\ input \in RoundInputs

NextRound == RoundTripClaude \/ RoundTripCodex \/ RoundTripAzure

SpecRound == InitRound /\ [][NextRound]_vars

RoundTrips == {"roundTripClaude", "roundTripCodex", "roundTripAzure"}

\* The IDs of the tool calls the assistant messages carry, in order.
CarriedIDs(messages) ==
  LET as == SelectSeq(messages, LAMBDA m : m.Role = "assistant")
      tcs == Flatten([i \in 1..Len(as) |-> as[i].ToolCalls])
  IN [i \in 1..Len(tcs) |-> tcs[i].ID]

\* C23: for each backend, translating assistant messages that carry N tool
\* calls and normalizing the response that echoes the emitted invocation
\* segments yields N tool calls with the same IDs in the same order.
C23_RoundTripIDs ==
  output.fn \in RoundTrips =>
    [i \in 1..Len(output.val.ToolCalls) |-> output.val.ToolCalls[i].ID]
      = CarriedIDs(input.messages)

\* --------------------------------------------------------- verbose tracing
\* Number of leading characters of a rejected keychain secret that the
\* verbose message shows.
ShownPrefixLen == 10

Min(a, b) == IF a < b THEN a ELSE b

\* One line written to standard output: the format, its name arguments
\* (services, scopes, identities, error messages) and its text arguments.
Line(fmt, names, texts) == [fmt |-> fmt, names |-> names, texts |-> texts]

\* The line printed whatever the verbose flag.
Emit_Always(verbose, line) == <<line>>

\* if config.Verbose { fmt.Print...(line) }
Emit(verbose, line) == IF verbose THEN <<line>> ELSE << >>

\* What the loop over keychainServices prints, from service i on.
RECURSIVE ScanServicesLog(_, _, _)
ScanServicesLog(verbose, kc, i) ==
  IF i > Len(keychainServices) THEN << >>
  ELSE LET service == keychainServices[i]
           apiKey == getKeychainPassword(kc.svc[service])
       IN IF apiKey # Empty
          THEN IF HasPrefix(apiKey, SkAntPrefix)
               THEN Emit(verbose,
                         Line("Found Anthropic API key in '%s' keychain service",
                              <<service>>, << >>))
               ELSE Emit(verbose,
                         Line("Found credential in '%s' but not a valid API key format (starts with: %s)",
                              <<service>>,
                              <<SubSeq(apiKey, 1,
                                       Min(ShownPrefixLen, Len(apiKey)))>>))
                    \o ScanServicesLog(verbose, kc, i + 1)
          ELSE ScanServicesLog(verbose, kc, i + 1)

\* What getClaudeCredentialsFromKeychain prints.
KeychainLog(verbose, os, kc) ==
  IF os # "darwin"
  THEN Emit(verbose, Line("Not on macOS, skipping keychain access", << >>, << >>))
  ELSE ScanServicesLog(verbose, kc, 1)

\* What the closure returned by createDynamicTokenSource prints.
TokenManagerLog(verbose, env, os, kc, ld) ==
  IF env # Empty
  THEN Emit(verbose, Line("Using ANTHROPIC_API_KEY from environment", << >>, << >>))
  ELSE LET credentials ==
             IF os = "darwin"
             THEN getClaudeCredentialsFromKeychain(os, kc)
             ELSE [APIKey |-> Empty, SessionToken |-> Empty, trace |-> << >>]
           log1 == IF os = "darwin" THEN KeychainLog(verbose, os, kc) ELSE << >>
       IN IF credentials.APIKey # Empty
          THEN log1 \o Emit(verbose,
                            Line("Retrieved API key from keychain", << >>, << >>))
          ELSE IF ld.err \/ ld.cred = NoCred THEN log1
          ELSE log1 \o Emit(verbose,
                            Line("Using credential from auth package", << >>, << >>))

\* What the closure returned by createAzureManagedIdentityTokenSource prints.
AzureAuthLog(verbose, config, mi) ==
  IF ~config.configured THEN << >>
  ELSE LET log1 ==
             IF config.ManagedIdentityID # ""
             THEN Emit(verbose,
                       Line("Using userassigned managed identity: %s",
                            <<config.ManagedIdentityID>>, << >>))
             ELSE Emit(verbose,
                       Line("Using DefaultAzureCredential (supports local Azure CLI auth)",
                            << >>, << >>))
       IN IF mi.createErr \/ mi.tokenErr THEN log1
          ELSE log1 \o Emit(verbose,
                            Line("Retrieved token for scope: %s",
                                 <<config.Scope>>, << >>))

\* What the closure returned by createDynamicCodexTokenSource prints; the
\* store, refresh and save steps print nothing.
CodexProviderLog(verbose, azureConfig, mi) ==
  IF azureConfig.configured /\ azureConfig.UseManagedIdentity
  THEN LET ident == createAzureManagedIdentityTokenSource(azureConfig, mi)
       IN Emit(verbose,
               Line("Attempting Azure Managed Identity authentication",
                    << >>, << >>))
          \o AzureAuthLog(verbose, azureConfig, mi)
          \o (IF ident.err = NoErr /\ ident.tok # Empty
              THEN Emit(verbose,
                        Line("Successfully authenticated with Azure Managed Identity",
                             << >>, << >>))
              ELSE Emit(verbose,
                        Line("Azure Managed Identity failed: %v",
                             IF ident.err = NoErr THEN <<"<nil>">> ELSE ident.err,
                             << >>)))
  ELSE << >>

\* One Resolve call of the Anthropic resolver and what it finds.
ClaudeResolveInputs ==
  [kind : {"resolveClaude"}, verbose : BOOLEAN, env : EnvValues,
   os : {"darwin", "linux"}, kc : KcWorlds,
   ld : {Load(TRUE, NoCred)} \cup {Load(FALSE, cr) : cr \in InitAnthropicCreds}]

\* One Resolve call of an OpenAI resolver and what it finds.
CodexResolveInputs ==
  [kind : {"resolveCodex"}, verbose : BOOLEAN,
   azureConfig : {NoAzure, AzureConfig("", FALSE), AzureConfig("", TRUE),
                  AzureConfig("client-id", TRUE)},
   mi : MiOutcomes,
   ld : {Load(TRUE, NoCred)} \cup {Load(FALSE, cr) : cr \in InitOpenAICreds}]

\* The closure of createDynamicTokenSource is called.
ResolveClaude ==
  /\ input.kind = "resolveClaude"
  /\ output' = [fn |-> "createDynamicTokenSource",
                val |-> createDynamicTokenSource(input.env, input.os,
                                                 input.kc, input.ld),
                log |-> TokenManagerLog(input.verbose, input.env, input.os,
                                        input.kc, input.ld)]
  /\ UNCHANGED <<goos, envKey, store, now, gen, call, ctx, input>>

\* The closure of createCodexTokenSource is called; it has no verbose flag.
ResolveCodex ==
  /\ input.kind = "resolveCodex"
  /\ output' = [fn |-> "createCodexTokenSource",
                val |-> createCodexTokenSource(input.ld, now),
                log |-> << >>]
  /\ UNCHANGED <<goos, envKey, store, now, gen, call, ctx, input>>

\* The closure of createDynamicCodexTokenSource is called.
ResolveAzure ==
  /\ input.kind = "resolveCodex"
  /\ output' = [fn |-> "createDynamicCodexTokenSource",
                val |-> createDynamicCodexTokenSource(input.azureConfig,
                                                      input.mi, input.ld, now),
                log |-> CodexProviderLog(input.verbose, input.azureConfig,
                                         input.mi)]
  /\ UNCHANGED <<goos, envKey, store, now, gen, call, ctx, input>>

InitResolve ==
  /\ InitIdle
  /\ \/ input \in ClaudeResolveInputs
     \/ input \in CodexResolveInputs

NextResolve == ResolveClaude \/ ResolveCodex \/ ResolveAzure

SpecResolve == InitResolve /\ [][NextResolve]_vars

Resolvers ==
  {"createDynamicTokenSource", "createCodexTokenSource",
   "createDynamicCodexTokenSource"}

ResolveDone == output.fn \in Resolvers

\* The line states the source of the attempt ev and its outcome.
Reports(line, ev) ==
  CASE ev.src = "env" /\ ev.out = "hit" ->
         line.fmt = "Using ANTHROPIC_API_KEY from environment"
    [] ev.src = "keychain" /\ ev.out = "hit" ->
         \/ /\ line.fmt = "Found Anthropic API key in '%s' keychain service"
            /\ line.names = <<ev.name>>
         \/ line.fmt = "Retrieved API key from keychain"
    [] ev.src = "keychain" /\ ev.out = "badshape" ->
         /\ line.fmt = "Found credential in '%s' but not a valid API key format (starts with: %s)"
         /\ line.names = <<ev.name>>
    [] ev.src = "store.load" /\ ev.out = "ok" ->
         line.fmt = "Using credential from auth package"
    [] ev.src = "identity.create" /\ ev.out = "ok" ->
         IF ev.name = "user-assigned"
         THEN line.fmt = "Using userassigned managed identity: %s"
         ELSE line.fmt = "Using DefaultAzureCredential (supports local Azure CLI auth)"
    [] ev.src = "identity.create" /\ ev.out = "error" ->
         line.fmt = "Azure Managed Identity failed: %v"
    [] ev.src = "identity.token" /\ ev.out \in {"hit", "empty"} ->
         /\ line.fmt = "Retrieved token for scope: %s"
         /\ line.names = <<ev.name>>
    [] ev.src = "identity.token" /\ ev.out = "error" ->
         line.fmt = "Azure Managed Identity failed: %v"
    [] OTHER -> FALSE

\* The attempts that get a line in verbose mode: the source that yields the
\* Anthropic token, a rejected keychain secret, and the identity steps. A
\* source that misses, a store that fails and every step of the OpenAI store
\* path get none.
Traced(fn, ev) ==
  \/ ev.src = "env" /\ ev.out = "hit"
  \/ ev.src = "keychain" /\ ev.out \in {"hit", "badshape"}
  \/ fn = "createDynamicTokenSource" /\ ev.src = "store.load" /\ ev.out = "ok"
  \/ ev.src \in {"identity.create", "identity.token"}

AttemptsOf == output.val.trace

SecretsRead ==
  IF input.kind = "resolveClaude"
  THEN {input.env, getKeychainPassword(input.kc.safe),
        input.kc.creds.doc.apiKey, input.kc.creds.doc.anthropicApiKey,
        input.ld.cred.AccessToken, input.ld.cred.RefreshToken}
       \cup {getKeychainPassword(input.kc.svc[s]) : s \in KcServiceSet}
  ELSE {input.mi.token, input.ld.cred.AccessToken, input.ld.cred.RefreshToken}

\* text is a non-empty part of the secret.
PartOf(text, secret) ==
  /\ text # Empty
  /\ \E a \in 1..Len(secret) : \E b \in a..Len(secret) :
       SubSeq(secret, a, b) = text

\* C30: no line a Resolve call prints, with verbose on or off, contains any
\* part of a token or secret read from the environment, the keychain, the
\* identity provider or the credential store.
C30_NoSecretInTrace ==
  ResolveDone =>
    \A j \in 1..Len(output.log) :
      \A k \in 1..Len(output.log[j].texts) :
        \A secret \in SecretsRead : ~PartOf(output.log[j].texts[k], secret)

\* ------------------------------------------------- concurrent refresh
\* The call has submitted the refresh token of the credential it loaded.
Submitted(c) == Count(call[c].trace, "refresh") > 0

\* C25: concurrent Chat calls that start from one stored OAuth credential in
\* need of refresh never submit the same refresh token to the refresh
\* endpoint twice, and a call that arrives after the refreshed credential was
\* persisted uses it without refreshing again.
C25_RefreshAtMostOnce ==
  /\ \A c1, c2 \in Callers :
       (c1 # c2 /\ Submitted(c1) /\ Submitted(c2)) =>
         call[c1].cred.RefreshToken # call[c2].cred.RefreshToken
  /\ \A c \in Callers :
       (call[c].pc # "idle" /\ ~call[c].staleAtCall) => ~Submitted(c)

\* ------------------------------------------------- managed identity
\* The identity step of the call runs: a configuration asking for it is
\* present.
IdentityTried ==
  /\ output.fn = "createDynamicCodexTokenSource"
  /\ input.azureConfig.configured
  /\ input.azureConfig.UseManagedIdentity

\* The credentials the call constructs, in order.
CredentialsTried ==
  LET evs == SelectSeq(output.val.trace, LAMBDA e : e.src = "identity.create")
  IN [i \in 1..Len(evs) |-> evs[i].name]

\* The scopes the call requests a token for, in order.
ScopesRequested ==
  LET evs == SelectSeq(output.val.trace, LAMBDA e : e.src = "identity.token")
  IN [i \in 1..Len(evs) |-> evs[i].name]

\* With a client ID the user-assigned credential is attempted first, without
\* one only the default broker is attempted.
IdentityPriority ==
  /\ input.azureConfig.ManagedIdentityID # "" =>
       (CredentialsTried # << >> /\ CredentialsTried[1] = "user-assigned")
  /\ input.azureConfig.ManagedIdentityID = "" =>
       CredentialsTried = <<"default">>

\* C26 (as stated): with a client ID configured the user-assigned identity
\* is attempted first, without one only the default broker is attempted, and
\* every Resolve call makes exactly one token request, for the configured
\* scope.
C26_Original ==
  IdentityTried =>
    /\ IdentityPriority
    /\ ScopesRequested = <<input.azureConfig.Scope>>

\* C26 (amended): the same priority; a Resolve call makes exactly one token
\* request, for the configured scope, when the credential was constructed,
\* and none when its construction failed.
C26_IdentityPriority ==
  IdentityTried =>
    /\ IdentityPriority
    /\ ScopesRequested =
         (IF input.mi.createErr THEN << >> ELSE <<input.azureConfig.Scope>>)

\* A call with a client ID configured got its token from the user-assigned
\* identity with one request for the configured scope.
C26_Witness ==
  /\ IdentityTried
  /\ input.azureConfig.ManagedIdentityID = "client-id"
  /\ CredentialsTried = <<"user-assigned">>
  /\ ScopesRequested = <<input.azureConfig.Scope>>
  /\ output.val.tok = MiTok

\* ------------------------------------------------- static fallback
\* The call loaded a stored credential that is not OAuth, or does not need
\* refresh, or has no refresh token, and its token source has returned.
StaticCase(c) ==
  /\ call[c].adapter \in OpenAIAdapters \cup {"claude"}
  /\ call[c].pc \in {"backend", "done"}
  /\ \E i \in 1..Len(call[c].trace) : call[c].trace[i].src = "store.load"
  /\ call[c].cred # NoCred
  /\ ~call[c].staleAtCall

\* The store is written in this step.
StoreWritten == store' # store

\* The step is the persist of a refresh that succeeded.
PersistOfRefresh ==
  \E c \in Callers :
    /\ call[c].pc = "save"
    /\ Has(call[c].trace, "refresh", "ok")
    /\ store' = [store EXCEPT !["openai"] = call[c].refreshed]

\* C27: a Resolve call whose loaded credential is not OAuth, or does not
\* need refresh, or has no refresh token returns the stored access token and
\* account ID as they are and makes no refresh call and no store write; over
\* any sequence of calls the store is written only by the persist of a
\* refresh that succeeded.
C27_StaticFallback ==
  /\ [](\A c \in Callers :
          StaticCase(c) =>
            /\ call[c].tok = call[c].cred.AccessToken
            /\ call[c].adapter \in OpenAIAdapters =>
                 call[c].acc = call[c].cred.AccountID
            /\ Count(call[c].trace, "refresh") = 0
            /\ Count(call[c].trace, "store.save") = 0)
  /\ [][StoreWritten => PersistOfRefresh]_vars

\* A call on an OpenAI adapter loaded an OAuth credential that is due for
\* refresh but has no refresh token, and returned its stored access token.
C27_Witness ==
  \E c \in Callers :
    /\ call[c].adapter \in OpenAIAdapters
    /\ call[c].pc = "backend"
    /\ call[c].cred.AuthMethod = "oauth"
    /\ call[c].cred.RefreshToken = Empty
    /\ NeedsRefresh(call[c].cred, now)
    /\ call[c].tok = call[c].cred.AccessToken
    /\ call[c].tok # Empty
    /\ Count(call[c].trace, "refresh") = 0
    /\ store["openai"] = call[c].cred

\* ------------------------------------------------- tools and options
\* The tool definitions the built request carries, in order.
SentTools(params) == IF params.Tools.set THEN params.Tools.val ELSE << >>

\* The string entries of a required list, in order.
StringEntries(req) ==
  LET strs == SelectSeq(req, LAMBDA r : r.t = "string")
  IN [i \in 1..Len(strs) |-> strs[i].v]

\* The required list a translated direct-message tool carries.
SentRequired(tool) ==
  IF tool.InputSchema.Required.set THEN tool.InputSchema.Required.val
  ELSE << >>

\* C28: for each of the three backends, a Chat call given N >= 1 tool
\* definitions sends a request with exactly N tool definitions, in the same
\* order and with the same names; in the direct-message translator the
\* required list of each tool is the string entries of the input required
\* list, in order.
C28_ToolsCarried ==
  (Built /\ Len(input.tools) >= 1) =>
    /\ [i \in 1..Len(SentTools(output.val)) |-> SentTools(output.val)[i].Name]
         = [i \in 1..Len(input.tools) |-> input.tools[i].Name]
    /\ output.fn = "buildClaudeParams" =>
         \A i \in 1..Len(input.tools) :
           SentRequired(SentTools(output.val)[i])
             = StringEntries(input.tools[i].Parameters.required)

\* The token-limit field of the built request.
TokenLimit(fn, params) ==
  CASE fn = "buildClaudeParams" -> Opt(params.MaxTokens)
    [] fn = "buildCodexParams" -> params.MaxOutputTokens
    [] OTHER -> params.MaxCompletionTokens

\* C29: an integer max_tokens option is sent in the token-limit field of the
\* backend (MaxCompletionTokens for the enterprise backend, MaxOutputTokens
\* for the response-stream backend, MaxTokens with default 4096 for the
\* direct-message backend); a temperature option is never sent to the
\* enterprise backend and is sent unchanged to the other two when it is a
\* float.
C29_OptionMapping ==
  Built =>
    /\ input.options.max_tokens.type = "int" =>
         TokenLimit(output.fn, output.val) = Opt(input.options.max_tokens.val)
    /\ (output.fn = "buildClaudeParams" /\ input.options.max_tokens.type # "int")
         => output.val.MaxTokens = 4096
    /\ output.fn = "chatAzure" => ~output.val.Temperature.set
    /\ (output.fn # "chatAzure" /\ input.options.temperature.type = "float64")
         => output.val.Temperature = Opt(input.options.temperature.val)

\* The enterprise translator was given an integer max_tokens and a float
\* temperature: the limit is in MaxCompletionTokens and no temperature is set.
C29_Witness ==
  /\ output.fn = "chatAzure"
  /\ input.options.max_tokens = IntOpt(100)
  /\ input.options.temperature = FloatOpt(7)
  /\ output.val.MaxCompletionTokens = Opt(100)
  /\ ~output.val.Temperature.set

=============================================================================
